---- MODULE Spec2Model ----
(***************************************************************************)
(* Model of the favorites orchestration service (Service in                *)
(* internal/core/service), its Postgres repository and its Redis cache     *)
(* adapter.  Every service method is one action; the collaborator calls a  *)
(* method makes are recorded, in order and with their outcome, in `last`.  *)
(***************************************************************************)
EXTENDS Integers, Sequences, FiniteSets, TLC

\* ------------------------------------------------------------------ bounds
\* Largest value of the cache clock (time.Now().Unix(), in seconds).
MaxTime == 1
\* Largest limit and largest offset a caller passes to FindAll.
MaxLimit == 2
MaxOffset == 1

IDs == {"a", "b"}
Users == {"u1", "u2"}
Descriptions == {"d1"}

\* Lexicographic rank of an id (Redis orders equal scores by member).
IdRank(id) == IF id = "a" THEN 1 ELSE IF id = "b" THEN 2 ELSE 0

\* ------------------------------------------------------------ domain model
AssetTypeChart == "chart"
AssetTypeInsight == "insight"
AssetTypeAudience == "audience"

\* AudienceRules{} : the zero value.
NoRules == [Gender |-> "", Country |-> "", AgeMin |-> 0, AgeMax |-> 0]

\* A Go value of type Chart, Insight or Audience.  `variant` is the concrete
\* type, Type the discriminator field of the embedded BaseAsset; the fields
\* that the concrete type does not have are kept at their zero value.
Chart(id, user, type, name, desc, x, y) ==
    [variant |-> AssetTypeChart, ID |-> id, UserID |-> user, Type |-> type,
     Name |-> name, Description |-> desc, XAxis |-> x, YAxis |-> y,
     Content |-> "", Rules |-> NoRules]

Insight(id, user, type, name, desc, content) ==
    [variant |-> AssetTypeInsight, ID |-> id, UserID |-> user, Type |-> type,
     Name |-> name, Description |-> desc, XAxis |-> "", YAxis |-> "",
     Content |-> content, Rules |-> NoRules]

Audience(id, user, type, name, desc, rules) ==
    [variant |-> AssetTypeAudience, ID |-> id, UserID |-> user, Type |-> type,
     Name |-> name, Description |-> desc, XAxis |-> "", YAxis |-> "",
     Content |-> "", Rules |-> rules]

\* The nil Asset.
NoAsset ==
    [variant |-> "", ID |-> "", UserID |-> "", Type |-> "", Name |-> "",
     Description |-> "", XAxis |-> "", YAxis |-> "", Content |-> "",
     Rules |-> NoRules]

\* BaseAsset.ValidateCommon: "" is nil, otherwise the error text.
ValidateCommon(b, expectedType) ==
    IF b.ID = "" THEN "validation failed: id is required"
    ELSE IF b.Name = "" THEN "validation failed: name is required"
    ELSE IF b.Type # expectedType THEN "validation failed: invalid asset type"
    ELSE ""

\* Validate that checks the rule of the concrete type before the shared fields.
ValidateVariantFirst(a) ==
    LET common == ValidateCommon(a, a.variant) IN
    IF a.variant = AssetTypeChart /\ a.XAxis = "" /\ a.YAxis = ""
    THEN "validation failed: chart requires at least one axis to be defined"
    ELSE IF a.variant = AssetTypeInsight /\ a.Content = ""
    THEN "validation failed: content is required for Insight"
    ELSE IF a.variant = AssetTypeAudience /\ a.Rules.Country = ""
    THEN "validation failed: country rule is required for Audience"
    ELSE IF a.variant = AssetTypeAudience /\ (a.Rules.AgeMin < 0 \/ a.Rules.AgeMax < 0)
    THEN "validation failed: age limits cannot be negative"
    ELSE IF a.variant = AssetTypeAudience /\ a.Rules.AgeMax > 0
            /\ a.Rules.AgeMin > a.Rules.AgeMax
    THEN "validation failed: age_min cannot be greater than age_max"
    ELSE common

\* Chart.Validate, Insight.Validate, Audience.Validate, by concrete type.
Validate(a) ==
    LET common == ValidateCommon(a, a.variant) IN
    IF common # "" THEN common
    ELSE IF a.variant = AssetTypeChart THEN
        IF a.XAxis = "" /\ a.YAxis = ""
        THEN "validation failed: chart requires at least one axis to be defined"
        ELSE ""
    ELSE IF a.variant = AssetTypeInsight THEN
        IF a.Content = ""
        THEN "validation failed: content is required for Insight"
        ELSE ""
    ELSE
        IF a.Rules.Country = ""
        THEN "validation failed: country rule is required for Audience"
        ELSE IF a.Rules.AgeMin < 0 \/ a.Rules.AgeMax < 0
        THEN "validation failed: age limits cannot be negative"
        ELSE IF a.Rules.AgeMax > 0 /\ a.Rules.AgeMin > a.Rules.AgeMax
        THEN "validation failed: age_min cannot be greater than age_max"
        ELSE ""

\* ------------------------------------------------------------------- JSON
\* A JSON object is a function from the keys it holds to their values.
Get(obj, key, zero) == IF key \in DOMAIN obj THEN obj[key] ELSE zero

\* json.Marshal(AudienceRules): every field is omitzero.
MarshalRules(r) ==
    LET full == [gender |-> r.Gender, country |-> r.Country]
        ints == [age_min |-> r.AgeMin, age_max |-> r.AgeMax]
        keys == {k \in {"gender", "country"} : full[k] # ""}
                \cup {k \in {"age_min", "age_max"} : ints[k] # 0}
    IN [k \in keys |-> IF k \in DOMAIN full THEN full[k] ELSE ints[k]]

\* json.Unmarshal into AudienceRules.
UnmarshalRules(obj) ==
    [Gender |-> Get(obj, "gender", ""), Country |-> Get(obj, "country", ""),
     AgeMin |-> Get(obj, "age_min", 0), AgeMax |-> Get(obj, "age_max", 0)]

\* Marshal with the rules of an Audience left out of the JSON object.
MarshalWithoutRules(a) ==
    LET strs == [id |-> a.ID, user_id |-> a.UserID, type |-> a.Type,
                 name |-> a.Name, description |-> a.Description,
                 x_axis |-> a.XAxis, y_axis |-> a.YAxis, content |-> a.Content]
        own == IF a.variant = AssetTypeChart THEN {"x_axis", "y_axis"}
               ELSE IF a.variant = AssetTypeInsight THEN {"content"}
               ELSE {}
        keys == {"type", "name"}
                \cup {k \in {"id", "user_id", "description"} \cup own : strs[k] # ""}
    IN [k \in keys |-> strs[k]]

\* json.Marshal(asset): the struct tags of BaseAsset and of the concrete
\* type; "type" and "name" are always written, "rules" always for an
\* Audience, every other field only when it is not the zero value.
Marshal(a) ==
    LET strs == [id |-> a.ID, user_id |-> a.UserID, type |-> a.Type,
                 name |-> a.Name, description |-> a.Description,
                 x_axis |-> a.XAxis, y_axis |-> a.YAxis, content |-> a.Content]
        own == IF a.variant = AssetTypeChart THEN {"x_axis", "y_axis"}
               ELSE IF a.variant = AssetTypeInsight THEN {"content"}
               ELSE {}
        keys == {"type", "name"}
                \cup {k \in {"id", "user_id", "description"} \cup own : strs[k] # ""}
                \cup (IF a.variant = AssetTypeAudience THEN {"rules"} ELSE {})
    IN [k \in keys |-> IF k = "rules" THEN MarshalRules(a.Rules) ELSE strs[k]]

\* json.Unmarshal(data, &c) for the concrete type `variant`: keys the type
\* does not have are ignored, fields without a key stay zero.
Decode(variant, data) ==
    IF variant = AssetTypeChart THEN
        Chart(Get(data, "id", ""), Get(data, "user_id", ""), Get(data, "type", ""),
              Get(data, "name", ""), Get(data, "description", ""),
              Get(data, "x_axis", ""), Get(data, "y_axis", ""))
    ELSE IF variant = AssetTypeInsight THEN
        Insight(Get(data, "id", ""), Get(data, "user_id", ""), Get(data, "type", ""),
                Get(data, "name", ""), Get(data, "description", ""),
                Get(data, "content", ""))
    ELSE
        Audience(Get(data, "id", ""), Get(data, "user_id", ""), Get(data, "type", ""),
                 Get(data, "name", ""), Get(data, "description", ""),
                 UnmarshalRules(Get(data, "rules", MarshalRules(NoRules))))

AssetTypes == {AssetTypeChart, AssetTypeInsight, AssetTypeAudience}

\* Service.unmarshal: reads the discriminator of the blob, then decodes into
\* the matching concrete type.
unmarshal(data) ==
    LET t == Get(data, "type", "") IN
    IF t \in AssetTypes
    THEN [err |-> "", asset |-> Decode(t, data)]
    ELSE [err |-> "unknown type", asset |-> NoAsset]

\* postgres unmarshalAsset: decodes by the row's type column.
unmarshalAsset(t, data) ==
    IF t \in AssetTypes
    THEN [err |-> "", asset |-> Decode(t, data)]
    ELSE [err |-> "unknown asset type", asset |-> NoAsset]

\* ------------------------------------------------------------------ state
VARIABLES
    rows,   \* the favorites table: rows in ORDER BY created_at DESC order
    zset,   \* Redis sorted set favorites:all : id -> score, for the ids it holds
    blobs,  \* Redis keys favorite:<id> : id -> JSON object, for the ids set
    now,    \* time.Now().Unix()
    last,   \* the last service call: arguments, result, collaborator calls
    inflight \* the service calls that run concurrently, each at a collaborator call

vars == <<rows, zset, blobs, now, last, inflight>>

\* One collaborator call and whether it returned a nil error.
Call(fn, id, ok) == [fn |-> fn, id |-> id, ok |-> ok]

\* The outcomes the collaborators give to the calls of one service call:
\* TRUE is success, FALSE an I/O error of that collaborator.  scanFail is
\* the row fetch of a Store cursor that fails and batchFail the chunk of a
\* cache-backed FindAll whose GetBatch fails (0: none).
NoFaults ==
    [repoSave |-> TRUE, repoFind |-> TRUE, repoDelete |-> TRUE,
     repoUpdate |-> TRUE, repoQuery |-> TRUE, enrich |-> TRUE,
     add |-> TRUE, set |-> TRUE, getBatch |-> TRUE, getIds |-> TRUE,
     remove |-> TRUE, scanFail |-> 0, batchFail |-> 0]

\* ------------------------------------------------- postgres.Repository
RowIds(rs) == {rs[i].id : i \in 1..Len(rs)}

RowOf(rs, id) == rs[CHOOSE i \in 1..Len(rs) : rs[i].id = id]

\* Repository.Save: INSERT of (id, type, asset_data, user_id); id is the
\* primary key, the new row has the latest created_at.
RepoSave(rs, asset, ok) ==
    IF ok /\ asset.ID \notin RowIds(rs)
    THEN [err |-> "",
          rows |-> <<[id |-> asset.ID, type |-> asset.Type,
                      asset_data |-> Marshal(asset),
                      user_id |-> asset.UserID]>> \o rs]
    ELSE [err |-> "failed to insert asset", rows |-> rs]

\* Repository.FindByID.
RepoFindByID(rs, id, ok) ==
    IF ~ok THEN [err |-> "failed to fetch asset", asset |-> NoAsset]
    ELSE IF id \notin RowIds(rs) THEN [err |-> "asset not found", asset |-> NoAsset]
    ELSE unmarshalAsset(RowOf(rs, id).type, RowOf(rs, id).asset_data)

\* Repository.Delete.
RepoDelete(rs, id, ok) ==
    IF ~ok THEN [err |-> "failed to delete asset", rows |-> rs]
    ELSE IF id \notin RowIds(rs) THEN [err |-> "asset not found", rows |-> rs]
    ELSE [err |-> "", rows |-> SelectSeq(rs, LAMBDA r : r.id # id)]

\* jsonb_set(asset_data, '{description}', to_jsonb(description)).
JsonbSetDescription(data, description) ==
    [k \in DOMAIN data \cup {"description"} |->
        IF k = "description" THEN description ELSE data[k]]

\* Repository.UpdateDescription: created_at, hence the row order, is kept.
RepoUpdateDescription(rs, id, description, ok) ==
    IF ~ok THEN [err |-> "failed to update description", asset |-> NoAsset, rows |-> rs]
    ELSE IF id \notin RowIds(rs) THEN [err |-> "asset not found", asset |-> NoAsset, rows |-> rs]
    ELSE LET new == [i \in 1..Len(rs) |->
                        IF rs[i].id = id
                        THEN [rs[i] EXCEPT !.asset_data = JsonbSetDescription(@, description)]
                        ELSE rs[i]]
             dec == unmarshalAsset(RowOf(new, id).type, RowOf(new, id).asset_data)
         IN [err |-> dec.err, asset |-> dec.asset, rows |-> new]

\* ------------------------------------------------------- redis.Adapter
\* Adapter.AddToSet: ZADD favorites:all score id.
AddToSet(z, id, score, ok) ==
    IF ok THEN [k \in DOMAIN z \cup {id} |-> IF k = id THEN score ELSE z[k]]
    ELSE z

\* Set that reports success and stores nothing.
SetDropsWrite(b, id, data, ok) == b

\* Adapter.Set: SET favorite:<id> data EX 24h.
Set(b, id, data, ok) ==
    IF ok THEN [k \in DOMAIN b \cup {id} |-> IF k = id THEN data ELSE b[k]]
    ELSE b

\* Adapter.GetBatch: MGET; ids without a value are left out of the result.
GetBatch(b, ids, ok) ==
    IF ok THEN [err |-> "", batch |-> [k \in ids \cap DOMAIN b |-> b[k]]]
    ELSE [err |-> "redis error", batch |-> [k \in {} |-> 0]]

\* Remove that reports success and removes nothing.
RemoveNothing(z, b, id, ok) == [zset |-> z, blobs |-> b]

\* Remove that deletes the blob and leaves the id in the sorted set.
RemoveBlobOnly(z, b, id, ok) ==
    IF ok THEN [zset |-> z, blobs |-> [k \in DOMAIN b \ {id} |-> b[k]]]
    ELSE [zset |-> z, blobs |-> b]

\* Remove that takes the id out of the sorted set and leaves its blob.
RemoveIndexOnly(z, b, id, ok) ==
    IF ok THEN [zset |-> [k \in DOMAIN z \ {id} |-> z[k]], blobs |-> b]
    ELSE [zset |-> z, blobs |-> b]

\* Adapter.Remove: ZREM favorites:all id and DEL favorite:<id>, in one pipeline.
Remove(z, b, id, ok) ==
    IF ok THEN [zset |-> [k \in DOMAIN z \ {id} |-> z[k]],
                blobs |-> [k \in DOMAIN b \ {id} |-> b[k]]]
    ELSE [zset |-> z, blobs |-> b]

\* Invalidate that takes the id out of the sorted set as well.
InvalidateAsRemove(z, b, id, ok) ==
    IF ok THEN [zset |-> [k \in DOMAIN z \ {id} |-> z[k]],
                blobs |-> [k \in DOMAIN b \ {id} |-> b[k]]]
    ELSE [zset |-> z, blobs |-> b]

\* Adapter.Invalidate: DEL favorite:<id>; favorites:all is not touched.
Invalidate(z, b, id, ok) ==
    IF ok THEN [zset |-> z, blobs |-> [k \in DOMAIN b \ {id} |-> b[k]]]
    ELSE [zset |-> z, blobs |-> b]

\* ------------------------------------------------------- service.Service
\* The state a service call works on, with the calls it has made so far.
World == [rows |-> rows, zset |-> zset, blobs |-> blobs, calls |-> <<>>]

\* Service.updateCache (json.Marshal cannot fail on the three asset types).
updateCache(w, asset, t, f) ==
    [w EXCEPT
        !.zset = AddToSet(@, asset.ID, t, f.add),
        !.blobs = Set(@, asset.ID, Marshal(asset), f.set),
        !.calls = @ \o <<Call("cache.AddToSet", asset.ID, f.add),
                         Call("cache.Set", asset.ID, f.set)>>]

\* enrichAndSaveCache that writes the cache before it calls the Enricher.
enrichAndSaveCacheCacheFirst(w, asset, t, f) ==
    LET w1 == updateCache(w, asset, t, f)
    IN [w1 EXCEPT !.calls = Append(@, Call("enricher.Enrich", asset.ID, f.enrich))]

\* enrichAndSaveCache that gives up on the cache when the Enricher fails.
enrichAndSaveCacheStopsOnEnrichError(w, asset, t, f) ==
    LET w1 == [w EXCEPT !.calls = Append(@, Call("enricher.Enrich", asset.ID, f.enrich))]
    IN IF f.enrich THEN updateCache(w1, asset, t, f) ELSE w1

\* Service.enrichAndSaveCache: the asset is passed to Enrich by value, so
\* the asset cached and returned is the one passed in; the error is always nil.
enrichAndSaveCache(w, asset, t, f) ==
    updateCache([w EXCEPT !.calls = Append(@, Call("enricher.Enrich", asset.ID, f.enrich))],
                asset, t, f)

\* What a service call returns, with the world it leaves.
Return(w, err, asset) ==
    [rows |-> w.rows, zset |-> w.zset, blobs |-> w.blobs, calls |-> w.calls,
     err |-> err, asset |-> asset, out |-> <<>>, cursor |-> "none"]

\* Save that writes the cache before it persists to the Store.
SaveCacheBeforeStore(w, asset, t, f) ==
    IF Validate(asset) # "" THEN Return(w, "validation failed", NoAsset)
    ELSE
        LET w1 == enrichAndSaveCache(w, asset, t, f)
            ins == RepoSave(w1.rows, asset, f.repoSave)
            w2 == [w1 EXCEPT !.rows = ins.rows,
                             !.calls = Append(@, Call("repo.Save", asset.ID, ins.err = ""))]
        IN IF ins.err # "" THEN Return(w2, "failed to save to db", NoAsset)
           ELSE Return(w2, "", NoAsset)

\* Save that reports a failed cache write to its caller.
SaveFailsOnCacheError(w, asset, t, f) ==
    IF Validate(asset) # "" THEN Return(w, "validation failed", NoAsset)
    ELSE
        LET ins == RepoSave(w.rows, asset, f.repoSave)
            w1 == [w EXCEPT !.rows = ins.rows,
                            !.calls = Append(@, Call("repo.Save", asset.ID, ins.err = ""))]
        IN IF ins.err # "" THEN Return(w1, "failed to save to db", NoAsset)
           ELSE Return(enrichAndSaveCache(w1, asset, t, f),
                       IF f.add /\ f.set THEN "" ELSE "failed to enrich and cache on save",
                       NoAsset)

\* Service.Save.
Save(w, asset, t, f) ==
    IF Validate(asset) # "" THEN Return(w, "validation failed", NoAsset)
    ELSE
        LET ins == RepoSave(w.rows, asset, f.repoSave)
            w1 == [w EXCEPT !.rows = ins.rows,
                            !.calls = Append(@, Call("repo.Save", asset.ID, ins.err = ""))]
        IN IF ins.err # "" THEN Return(w1, "failed to save to db", NoAsset)
           ELSE Return(enrichAndSaveCache(w1, asset, t, f), "", NoAsset)

\* FindByID that repairs the cache from the Store on a cache hit too.
FindByIDRepairsOnHit(w, id, t, f) ==
    LET got == GetBatch(w.blobs, {id}, f.getBatch)
        w1 == [w EXCEPT !.calls = Append(@, Call("cache.GetBatch", id, got.err = ""))]
        found == RepoFindByID(w1.rows, id, f.repoFind)
        w2 == [w1 EXCEPT !.calls = Append(@, Call("repo.FindByID", id, found.err = ""))]
    IN IF found.err # "" THEN Return(w2, found.err, NoAsset)
       ELSE Return(enrichAndSaveCache(w2, found.asset, t, f), "", found.asset)

\* FindByID that returns the Store's asset on a miss without read-repair.
FindByIDNoRepair(w, id, t, f) ==
    LET got == GetBatch(w.blobs, {id}, f.getBatch)
        w1 == [w EXCEPT !.calls = Append(@, Call("cache.GetBatch", id, got.err = ""))]
    IN IF got.err = "" /\ Cardinality(DOMAIN got.batch) > 0
       THEN LET dec == unmarshal(got.batch[id]) IN Return(w1, dec.err, dec.asset)
       ELSE
           LET found == RepoFindByID(w1.rows, id, f.repoFind)
               w2 == [w1 EXCEPT !.calls = Append(@, Call("repo.FindByID", id, found.err = ""))]
           IN Return(w2, found.err, found.asset)

\* FindByID that returns the error of the cache read to its caller.
FindByIDReturnsCacheError(w, id, t, f) ==
    LET got == GetBatch(w.blobs, {id}, f.getBatch)
        w1 == [w EXCEPT !.calls = Append(@, Call("cache.GetBatch", id, got.err = ""))]
    IN IF got.err # "" THEN Return(w1, got.err, NoAsset)
       ELSE IF Cardinality(DOMAIN got.batch) > 0
       THEN LET dec == unmarshal(got.batch[id]) IN Return(w1, dec.err, dec.asset)
       ELSE
           LET found == RepoFindByID(w1.rows, id, f.repoFind)
               w2 == [w1 EXCEPT !.calls = Append(@, Call("repo.FindByID", id, found.err = ""))]
           IN IF found.err # "" THEN Return(w2, found.err, NoAsset)
              ELSE Return(enrichAndSaveCache(w2, found.asset, t, f), "", found.asset)

\* Service.FindByID.
FindByID(w, id, t, f) ==
    LET got == GetBatch(w.blobs, {id}, f.getBatch)
        w1 == [w EXCEPT !.calls = Append(@, Call("cache.GetBatch", id, got.err = ""))]
    IN IF got.err = "" /\ Cardinality(DOMAIN got.batch) > 0
       THEN LET dec == unmarshal(got.batch[id]) IN Return(w1, dec.err, dec.asset)
       ELSE
           LET found == RepoFindByID(w1.rows, id, f.repoFind)
               w2 == [w1 EXCEPT !.calls = Append(@, Call("repo.FindByID", id, found.err = ""))]
           IN IF found.err # "" THEN Return(w2, found.err, NoAsset)
              ELSE Return(enrichAndSaveCache(w2, found.asset, t, f), "", found.asset)

\* Delete without the ownership check.
DeleteNoOwnerCheck(w, id, userID, f) ==
    LET found == RepoFindByID(w.rows, id, f.repoFind)
        w1 == [w EXCEPT !.calls = Append(@, Call("repo.FindByID", id, found.err = ""))]
    IN IF found.err # "" THEN Return(w1, found.err, NoAsset)
       ELSE
           LET del == RepoDelete(w1.rows, id, f.repoDelete)
               w2 == [w1 EXCEPT !.rows = del.rows,
                                !.calls = Append(@, Call("repo.Delete", id, del.err = ""))]
           IN IF del.err # "" THEN Return(w2, del.err, NoAsset)
              ELSE
                  LET rem == Remove(w2.zset, w2.blobs, id, f.remove)
                      w3 == [w2 EXCEPT !.zset = rem.zset, !.blobs = rem.blobs,
                                       !.calls = Append(@, Call("cache.Remove", id, f.remove))]
                  IN Return(w3, IF f.remove THEN "" ELSE "redis error", NoAsset)

\* Service.Delete.
Delete(w, id, userID, f) ==
    LET found == RepoFindByID(w.rows, id, f.repoFind)
        w1 == [w EXCEPT !.calls = Append(@, Call("repo.FindByID", id, found.err = ""))]
    IN IF found.err # "" THEN Return(w1, found.err, NoAsset)
       ELSE IF found.asset.UserID # userID
       THEN Return(w1, "forbidden: you do not own this asset", NoAsset)
       ELSE
           LET del == RepoDelete(w1.rows, id, f.repoDelete)
               w2 == [w1 EXCEPT !.rows = del.rows,
                                !.calls = Append(@, Call("repo.Delete", id, del.err = ""))]
           IN IF del.err # "" THEN Return(w2, del.err, NoAsset)
              ELSE
                  LET rem == Remove(w2.zset, w2.blobs, id, f.remove)
                      w3 == [w2 EXCEPT !.zset = rem.zset, !.blobs = rem.blobs,
                                       !.calls = Append(@, Call("cache.Remove", id, f.remove))]
                  IN Return(w3, IF f.remove THEN "" ELSE "redis error", NoAsset)

\* UpdateDescription that drops the blob and keeps the id in the index.
UpdateDescriptionKeepsIndex(w, id, description, userID, f) ==
    LET found == RepoFindByID(w.rows, id, f.repoFind)
        w1 == [w EXCEPT !.calls = Append(@, Call("repo.FindByID", id, found.err = ""))]
    IN IF found.err # "" THEN Return(w1, found.err, NoAsset)
       ELSE IF found.asset.UserID # userID
       THEN Return(w1, "forbidden: you do not own this asset", NoAsset)
       ELSE
           LET upd == RepoUpdateDescription(w1.rows, id, description, f.repoUpdate)
               w2 == [w1 EXCEPT !.rows = upd.rows,
                                !.calls = Append(@, Call("repo.UpdateDescription", id, upd.err = ""))]
           IN IF upd.err # "" THEN Return(w2, upd.err, NoAsset)
              ELSE
                  LET rem == Invalidate(w2.zset, w2.blobs, id, f.remove)
                      w3 == [w2 EXCEPT !.zset = rem.zset, !.blobs = rem.blobs,
                                       !.calls = Append(@, Call("cache.Remove", id, f.remove))]
                  IN Return(w3, "", upd.asset)

\* Service.UpdateDescription.
UpdateDescription(w, id, description, userID, f) ==
    LET found == RepoFindByID(w.rows, id, f.repoFind)
        w1 == [w EXCEPT !.calls = Append(@, Call("repo.FindByID", id, found.err = ""))]
    IN IF found.err # "" THEN Return(w1, found.err, NoAsset)
       ELSE IF found.asset.UserID # userID
       THEN Return(w1, "forbidden: you do not own this asset", NoAsset)
       ELSE
           LET upd == RepoUpdateDescription(w1.rows, id, description, f.repoUpdate)
               w2 == [w1 EXCEPT !.rows = upd.rows,
                                !.calls = Append(@, Call("repo.UpdateDescription", id, upd.err = ""))]
           IN IF upd.err # "" THEN Return(w2, upd.err, NoAsset)
              ELSE
                  LET rem == Remove(w2.zset, w2.blobs, id, f.remove)
                      w3 == [w2 EXCEPT !.zset = rem.zset, !.blobs = rem.blobs,
                                       !.calls = Append(@, Call("cache.Remove", id, f.remove))]
                  IN Return(w3, "", upd.asset)

\* The members in ascending score order, as ZRANGE returns them.
RECURSIVE RevOrderAscending(_)
RevOrderAscending(z) ==
    IF DOMAIN z = {} THEN <<>>
    ELSE LET low == CHOOSE i \in DOMAIN z :
                        \A j \in DOMAIN z :
                            \/ z[i] < z[j]
                            \/ z[i] = z[j] /\ IdRank(i) <= IdRank(j)
         IN <<low>> \o RevOrderAscending([k \in DOMAIN z \ {low} |-> z[k]])

\* Adapter.GetIdsFromSet: ZREVRANGE favorites:all start stop.  The members in
\* descending score order, equal scores in descending lexicographic order;
\* a negative bound counts from the end, stop is clamped to the last member.
RECURSIVE RevOrder(_)
RevOrder(z) ==
    IF DOMAIN z = {} THEN <<>>
    ELSE LET top == CHOOSE i \in DOMAIN z :
                        \A j \in DOMAIN z :
                            \/ z[i] > z[j]
                            \/ z[i] = z[j] /\ IdRank(i) >= IdRank(j)
         IN <<top>> \o RevOrder([k \in DOMAIN z \ {top} |-> z[k]])

\* GetIdsFromSet that leaves the member at index stop out of the range.
GetIdsFromSetExclusiveStop(z, start, stop, ok) ==
    LET all == RevOrder(z)
        n == Len(all)
        s0 == IF start < 0 THEN (IF n + start < 0 THEN 0 ELSE n + start) ELSE start
        e0 == (IF stop < 0 THEN n + stop ELSE IF stop >= n THEN n - 1 ELSE stop) - 1
    IN IF ~ok THEN [err |-> "redis error", ids |-> <<>>]
       ELSE IF s0 > e0 \/ s0 >= n THEN [err |-> "", ids |-> <<>>]
       ELSE [err |-> "", ids |-> SubSeq(all, s0 + 1, e0 + 1)]

GetIdsFromSet(z, start, stop, ok) ==
    LET all == RevOrder(z)
        n == Len(all)
        s0 == IF start < 0 THEN (IF n + start < 0 THEN 0 ELSE n + start) ELSE start
        e0 == IF stop < 0 THEN n + stop ELSE IF stop >= n THEN n - 1 ELSE stop
    IN IF ~ok THEN [err |-> "redis error", ids |-> <<>>]
       ELSE IF s0 > e0 \/ s0 >= n THEN [err |-> "", ids |-> <<>>]
       ELSE [err |-> "", ids |-> SubSeq(all, s0 + 1, e0 + 1)]

\* Repository.FindAll, the rows of LIMIT limit OFFSET offset.
Page(rs, limit, offset) ==
    SubSeq(rs, offset + 1, IF offset + limit > Len(rs) THEN Len(rs) ELSE offset + limit)

\* The elements the iterator of Repository.FindAll yields when drained: the
\* decoded rows of the page, cut by an error element at the fetch that fails
\* (rows.Scan of that row, or rows.Err() after the last row).
RepoFindAllItems(rs, limit, offset, scanFail) ==
    LET page == Page(rs, limit, offset)
        n == IF scanFail \in 1..(Len(page) + 1) THEN scanFail ELSE Len(page)
    IN [k \in 1..n |->
           IF k = scanFail
           THEN [asset |-> NoAsset,
                 err |-> IF k <= Len(page) THEN "failed to scan row"
                         ELSE "rows iteration error"]
           ELSE LET dec == unmarshalAsset(page[k].type, page[k].asset_data)
                IN [asset |-> dec.asset, err |-> dec.err]]

\* ------------------------------------------------------------- iterators
batchSize == 100

\* yield whose result is ignored: the iterator goes on after the consumer's break.
YieldIgnoresBreak(it, asset, err, take) ==
    [it EXCEPT !.out = Append(@, [asset |-> asset, err |-> err]),
               !.more = TRUE]

\* yield that hands the element to the consumer twice.
YieldTwice(it, asset, err, take) ==
    [it EXCEPT !.out = @ \o <<[asset |-> asset, err |-> err], [asset |-> asset, err |-> err]>>,
               !.more = Len(it.out) + 2 < take]

\* yield(asset, err): the element reaches the consumer, who breaks out of its
\* loop at the take-th element; `more` is what yield returns.
Yield(it, asset, err, take) ==
    [it EXCEPT !.out = Append(@, [asset |-> asset, err |-> err]),
               !.more = Len(it.out) + 1 < take]

\* yield(nil, err); return.
YieldError(it, err, take) == [Yield(it, NoAsset, err, take) EXCEPT !.more = FALSE]

\* The body of the inner loop that passes over an id whose blob is missing.
ChunkStepSkipsMissing(it, id, dataMap, t, f, take) ==
    IF id \notin DOMAIN dataMap THEN it
    ELSE
        LET dec == unmarshal(dataMap[id]) IN
        IF dec.err # ""
        THEN YieldError(it, "failed to unmarshal cached asset", take)
        ELSE Yield(it, dec.asset, "", take)

\* The body of the inner loop that reads every id from the Store, cached or not.
ChunkStepAlwaysRepairs(it, id, dataMap, t, f, take) ==
    LET found == RepoFindByID(it.rows, id, f.repoFind)
        it1 == [it EXCEPT !.calls = Append(@, Call("repo.FindByID", id, found.err = ""))]
    IN IF found.err # ""
       THEN YieldError(it1, "failed to repair cache", take)
       ELSE Yield(enrichAndSaveCache(it1, found.asset, t, f), found.asset, "", take)

\* The body of the inner loop that passes over a blob it cannot decode.
ChunkStepSkipsUndecodable(it, id, dataMap, t, f, take) ==
    IF id \notin DOMAIN dataMap THEN
        LET found == RepoFindByID(it.rows, id, f.repoFind)
            it1 == [it EXCEPT !.calls = Append(@, Call("repo.FindByID", id, found.err = ""))]
        IN IF found.err # ""
           THEN YieldError(it1, "failed to repair cache", take)
           ELSE Yield(enrichAndSaveCache(it1, found.asset, t, f), found.asset, "", take)
    ELSE
        LET dec == unmarshal(dataMap[id]) IN
        IF dec.err # "" THEN it
        ELSE Yield(it, dec.asset, "", take)

\* The body of the inner loop of chunkedCacheIterator for one id of the
\* chunk: decode its blob, or repair the id from the Store; `more` is FALSE
\* in the result when the body returned from the iterator.
ChunkStep(it, id, dataMap, t, f, take) ==
    IF id \notin DOMAIN dataMap THEN
        LET found == RepoFindByID(it.rows, id, f.repoFind)
            it1 == [it EXCEPT !.calls = Append(@, Call("repo.FindByID", id, found.err = ""))]
        IN IF found.err # ""
           THEN YieldError(it1, "failed to repair cache", take)
           ELSE Yield(enrichAndSaveCache(it1, found.asset, t, f), found.asset, "", take)
    ELSE
        LET dec == unmarshal(dataMap[id]) IN
        IF dec.err # ""
        THEN YieldError(it, "failed to unmarshal cached asset", take)
        ELSE Yield(it, dec.asset, "", take)

\* The inner loop of chunkedCacheIterator over the ids of one chunk, from
\* the k-th on, until the end of the chunk or a return.
RECURSIVE ChunkLoop(_, _, _, _, _, _, _)
ChunkLoop(it, chunkIds, dataMap, k, t, f, take) ==
    IF k > Len(chunkIds) \/ ~it.more THEN it
    ELSE ChunkLoop(ChunkStep(it, chunkIds[k], dataMap, t, f, take),
                   chunkIds, dataMap, k + 1, t, f, take)

RECURSIVE chunkedCacheIterator(_, _, _, _, _, _)

\* chunkedCacheIterator that passes over a chunk whose GetBatch failed and
\* goes on with the next chunk.
chunkedCacheIteratorSkipsFailedChunk(it, ids, i, t, f, take) ==
    IF i >= Len(ids) THEN it
    ELSE
        LET end == IF i + batchSize > Len(ids) THEN Len(ids) ELSE i + batchSize
            chunkIds == SubSeq(ids, i + 1, end)
            got == GetBatch(it.blobs, {chunkIds[k] : k \in 1..Len(chunkIds)},
                            f.getBatch /\ f.batchFail # (i \div batchSize) + 1)
            it1 == [it EXCEPT !.calls = Append(@, Call("cache.GetBatch", "*", got.err = ""))]
            it2 == IF got.err # "" THEN it1
                   ELSE ChunkLoop(it1, chunkIds, got.batch, 1, t, f, take)
        IN IF ~it2.more THEN it2
           ELSE chunkedCacheIterator(it2, ids, i + batchSize, t, f, take)

\* Service.chunkedCacheIterator, from the chunk that starts at index i.
chunkedCacheIterator(it, ids, i, t, f, take) ==
    IF i >= Len(ids) THEN it
    ELSE
        LET end == IF i + batchSize > Len(ids) THEN Len(ids) ELSE i + batchSize
            chunkIds == SubSeq(ids, i + 1, end)
            got == GetBatch(it.blobs, {chunkIds[k] : k \in 1..Len(chunkIds)},
                            f.getBatch /\ f.batchFail # (i \div batchSize) + 1)
            it1 == [it EXCEPT !.calls = Append(@, Call("cache.GetBatch", "*", got.err = ""))]
        IN IF got.err # ""
           THEN YieldError(it1, "failed to fetch cache batch", take)
           ELSE LET it2 == ChunkLoop(it1, chunkIds, got.batch, 1, t, f, take)
                IN IF ~it2.more THEN it2
                   ELSE chunkedCacheIterator(it2, ids, i + batchSize, t, f, take)

RECURSIVE cacheIterator(_, _, _, _, _, _)

\* cacheIterator that ends the sequence at an error element of the Store's
\* iterator without yielding the error.
cacheIteratorDropsError(it, input, k, t, f, take) ==
    IF k > Len(input) THEN it
    ELSE IF input[k].err # "" THEN [it EXCEPT !.more = FALSE]
    ELSE
        LET it1 == enrichAndSaveCache(it, input[k].asset, t, f)
            it2 == enrichAndSaveCache(it1, input[k].asset, t, f)
            it3 == Yield(it2, input[k].asset, "", take)
        IN IF ~it3.more THEN it3
           ELSE cacheIterator(it3, input, k + 1, t, f, take)

\* Service.cacheIterator over the elements of the Store's iterator, from the
\* k-th on: every asset goes through enrichAndSaveCache twice, then is yielded.
cacheIterator(it, input, k, t, f, take) ==
    IF k > Len(input) THEN it
    ELSE IF input[k].err # "" THEN YieldError(it, input[k].err, take)
    ELSE
        LET it1 == enrichAndSaveCache(it, input[k].asset, t, f)
            it2 == enrichAndSaveCache(it1, input[k].asset, t, f)
            it3 == Yield(it2, input[k].asset, "", take)
        IN IF ~it3.more THEN it3
           ELSE cacheIterator(it3, input, k + 1, t, f, take)

\* rows.Close() placed after the loop over the rows: it runs on exhaustion only.
CloseAfterLoop(it) == IF it.more THEN "closed" ELSE "open"

\* defer rows.Close() of the Store iterators: it runs when the iterator
\* function returns, whatever made it return.
DeferClose(it) == "closed"

\* FindByUser whose query has no WHERE user_id = $1.
RepoFindByUserItemsAllUsers(rs, userID, limit, offset, scanFail) ==
    RepoFindAllItems(rs, limit, offset, scanFail)

\* Repository.FindByUser, the elements its iterator yields when drained: the
\* decoded rows of the user's page, cut by an error element at the fetch
\* that fails (rows.Scan of that row, or rows.Err() after the last row).
RepoFindByUserItems(rs, userID, limit, offset, scanFail) ==
    LET page == Page(SelectSeq(rs, LAMBDA r : r.user_id = userID), limit, offset)
        n == IF scanFail \in 1..(Len(page) + 1) THEN scanFail ELSE Len(page)
    IN [k \in 1..n |->
           IF k = scanFail
           THEN [asset |-> NoAsset,
                 err |-> IF k <= Len(page) THEN "scan error" ELSE "rows error"]
           ELSE LET dec == unmarshalAsset(page[k].type, page[k].asset_data)
                IN [asset |-> dec.asset,
                    err |-> IF dec.err = "" THEN "" ELSE "unmarshal error"]]

\* The loop of the Store iterator over its elements, from the k-th on: an
\* error element ends it, and so does the consumer's break.
RECURSIVE RowsIterator(_, _, _, _)
RowsIterator(it, input, k, take) ==
    IF k > Len(input) THEN it
    ELSE IF input[k].err # "" THEN YieldError(it, input[k].err, take)
    ELSE LET it1 == Yield(it, input[k].asset, "", take)
         IN IF ~it1.more THEN it1
            ELSE RowsIterator(it1, input, k + 1, take)

\* FindAllByUser that writes the rows of the user through to the cache.
FindAllByUserThroughCache(w, userID, limit, offset, f, take) ==
    LET it0 == [rows |-> w.rows, zset |-> w.zset, blobs |-> w.blobs,
                calls |-> Append(w.calls, Call("repo.FindByUser", "*", f.repoQuery)),
                out |-> <<>>, more |-> TRUE]
        Result(it, err, cursor) ==
            [rows |-> it.rows, zset |-> it.zset, blobs |-> it.blobs,
             calls |-> it.calls, err |-> err, asset |-> NoAsset,
             out |-> it.out, cursor |-> cursor]
    IN IF ~f.repoQuery THEN Result(it0, "failed to query favorites", "none")
       ELSE IF take = 0 THEN Result(it0, "", "open")
       ELSE LET it1 == cacheIterator(it0,
                            RepoFindByUserItems(w.rows, userID, limit, offset, f.scanFail),
                            1, 0, f, take)
            IN Result(it1, "", DeferClose(it1))

\* Service.FindAllByUser and the consumer's loop over the sequence it
\* returns: the Store's sequence as it is, the cache is not consulted.
FindAllByUser(w, userID, limit, offset, f, take) ==
    LET it0 == [rows |-> w.rows, zset |-> w.zset, blobs |-> w.blobs,
                calls |-> Append(w.calls, Call("repo.FindByUser", "*", f.repoQuery)),
                out |-> <<>>, more |-> TRUE]
        Result(it, err, cursor) ==
            [rows |-> it.rows, zset |-> it.zset, blobs |-> it.blobs,
             calls |-> it.calls, err |-> err, asset |-> NoAsset,
             out |-> it.out, cursor |-> cursor]
    IN IF ~f.repoQuery THEN Result(it0, "failed to query favorites", "none")
       ELSE IF take = 0 THEN Result(it0, "", "open")
       ELSE LET it1 == RowsIterator(it0,
                            RepoFindByUserItems(w.rows, userID, limit, offset, f.scanFail),
                            1, take)
            IN Result(it1, "", DeferClose(it1))

\* FindAll that returns the error of GetIdsFromSet instead of reading the Store.
FindAllReturnsIndexError(w, limit, offset, t, f, take) ==
    LET start == offset
        stop == offset + limit - 1
        idx == GetIdsFromSet(w.zset, start, stop, f.getIds)
        it0 == [rows |-> w.rows, zset |-> w.zset, blobs |-> w.blobs,
                calls |-> Append(w.calls, Call("cache.GetIdsFromSet", "*", idx.err = "")),
                out |-> <<>>, more |-> TRUE]
        Result(it, err, cursor) ==
            [rows |-> it.rows, zset |-> it.zset, blobs |-> it.blobs,
             calls |-> it.calls, err |-> err, asset |-> NoAsset,
             out |-> it.out, cursor |-> cursor]
    IN IF idx.err # "" THEN Result(it0, idx.err, "none")
       ELSE IF idx.err = "" /\ Len(idx.ids) > 0
       THEN Result(IF take = 0 THEN it0
                   ELSE chunkedCacheIterator(it0, idx.ids, 0, t, f, take),
                   "", "none")
       ELSE
           LET it1 == [it0 EXCEPT !.calls = Append(@, Call("repo.FindAll", "*", f.repoQuery))]
           IN IF ~f.repoQuery THEN Result(it1, "failed to query assets", "none")
              ELSE IF take = 0 THEN Result(it1, "", "open")
              ELSE LET it2 == cacheIterator(it1,
                                   RepoFindAllItems(w.rows, limit, offset, f.scanFail),
                                   1, t, f, take)
                   IN Result(it2, "", DeferClose(it2))

\* Service.FindAll and the consumer's loop over the sequence it returns.
\* take = 0: the consumer never ranges over the sequence; take = k > 0: it
\* breaks at the k-th element unless the sequence ends before.
FindAll(w, limit, offset, t, f, take) ==
    LET start == offset
        stop == offset + limit - 1
        idx == GetIdsFromSet(w.zset, start, stop, f.getIds)
        it0 == [rows |-> w.rows, zset |-> w.zset, blobs |-> w.blobs,
                calls |-> Append(w.calls, Call("cache.GetIdsFromSet", "*", idx.err = "")),
                out |-> <<>>, more |-> TRUE]
        Result(it, err, cursor) ==
            [rows |-> it.rows, zset |-> it.zset, blobs |-> it.blobs,
             calls |-> it.calls, err |-> err, asset |-> NoAsset,
             out |-> it.out, cursor |-> cursor]
    IN IF idx.err = "" /\ Len(idx.ids) > 0
       THEN Result(IF take = 0 THEN it0
                   ELSE chunkedCacheIterator(it0, idx.ids, 0, t, f, take),
                   "", "none")
       ELSE
           LET it1 == [it0 EXCEPT !.calls = Append(@, Call("repo.FindAll", "*", f.repoQuery))]
           IN IF ~f.repoQuery THEN Result(it1, "failed to query assets", "none")
              ELSE IF take = 0 THEN Result(it1, "", "open")
              ELSE LET it2 == cacheIterator(it1,
                                   RepoFindAllItems(w.rows, limit, offset, f.scanFail),
                                   1, t, f, take)
                   IN Result(it2, "", DeferClose(it2))

\* ---------------------------------------------------------------- inputs
\* The user that owns the assets saved under an id.
OwnerOf(id) == IF id = "a" THEN "u1" ELSE "u2"

\* The assets callers pass to Save: the three concrete types, valid ...
ValidAssets ==
    {Chart("a", OwnerOf("a"), AssetTypeChart, "n", "", "x", ""),
     Audience("a", OwnerOf("a"), AssetTypeAudience, "n", "",
              [Gender |-> "", Country |-> "GR", AgeMin |-> 18, AgeMax |-> 0]),
     Insight("b", OwnerOf("b"), AssetTypeInsight, "n", "", "c")}

\* ... and failing one validation rule each.
InvalidAssets ==
    {Chart("", "u1", AssetTypeChart, "n", "", "x", ""),
     Chart("a", "u1", AssetTypeChart, "", "", "x", ""),
     Chart("a", "u1", AssetTypeInsight, "n", "", "x", ""),
     Chart("a", "u1", AssetTypeChart, "n", "", "", ""),
     Insight("a", "u1", AssetTypeInsight, "n", "", ""),
     Audience("a", "u1", AssetTypeAudience, "n", "",
              [Gender |-> "", Country |-> "", AgeMin |-> 18, AgeMax |-> 0])}

SaveInputs == ValidAssets \cup InvalidAssets

\* ------------------------------------------------------------------ actions
\* The record of a service call kept in `last`.
Record(op, id, user, desc, arg, limit, offset, r) ==
    [op |-> op, id |-> id, user |-> user, desc |-> desc, arg |-> arg,
     limit |-> limit, offset |-> offset,
     err |-> r.err, asset |-> r.asset, calls |-> r.calls, out |-> r.out,
     cursor |-> r.cursor]

\* No service call has been made, or its result has been taken.
Idle ==
    Record("none", "", "", "", NoAsset, 0, 0,
           [err |-> "", asset |-> NoAsset, calls |-> <<>>, out |-> <<>>,
            cursor |-> "none"])

\* No service call runs concurrently with another.
NoCalls == <<>>

Init ==
    /\ rows = <<>>
    /\ zset = [k \in {} |-> 0]
    /\ blobs = [k \in {} |-> 0]
    /\ now = 0
    /\ last = Idle
    /\ inflight = NoCalls

Apply(r) ==
    /\ rows' = r.rows
    /\ zset' = r.zset
    /\ blobs' = r.blobs

\* The outcomes of the calls Save makes after a successful validation.
SaveFaults ==
    {[NoFaults EXCEPT !.repoSave = FALSE]}
    \cup {[NoFaults EXCEPT !.enrich = en, !.add = ad, !.set = st] : en, ad, st \in BOOLEAN}

DoSave ==
    /\ last = Idle
    /\ \E a \in SaveInputs :
       \E f \in IF a \in ValidAssets THEN SaveFaults ELSE {NoFaults} :
        LET r == Save(World, a, now, f)
        IN /\ Apply(r)
           /\ last' = Record("Save", a.ID, a.UserID, "", a, 0, 0, r)
           /\ UNCHANGED <<now, inflight>>

\* The outcomes of the calls FindByID makes: the cache read, then the Store
\* read or, when that succeeds, the enrichment and the two cache writes.
FindByIDFaults ==
    {[g EXCEPT !.repoFind = FALSE] : g \in {NoFaults, [NoFaults EXCEPT !.getBatch = FALSE]}}
    \cup {[NoFaults EXCEPT !.getBatch = gb, !.enrich = en, !.add = ad, !.set = st] :
              gb, en, ad, st \in BOOLEAN}

DoFindByID ==
    /\ last = Idle
    /\ \E id \in IDs, f \in FindByIDFaults :
        LET r == FindByID(World, id, now, f)
        IN /\ Apply(r)
           /\ last' = Record("FindByID", id, "", "", NoAsset, 0, 0, r)
           /\ UNCHANGED <<now, inflight>>

DoDelete ==
    /\ last = Idle
    /\ \E id \in IDs, u \in Users, fd, dl, rm \in BOOLEAN :
        LET f == [NoFaults EXCEPT !.repoFind = fd, !.repoDelete = dl, !.remove = rm]
            r == Delete(World, id, u, f)
        IN /\ Apply(r)
           /\ last' = Record("Delete", id, u, "", NoAsset, 0, 0, r)
           /\ UNCHANGED <<now, inflight>>

DoUpdateDescription ==
    /\ last = Idle
    /\ \E id \in IDs, u \in Users, d \in Descriptions, fd, up, rm \in BOOLEAN :
        LET f == [NoFaults EXCEPT !.repoFind = fd, !.repoUpdate = up, !.remove = rm]
            r == UpdateDescription(World, id, d, u, f)
        IN /\ Apply(r)
           /\ last' = Record("UpdateDescription", id, u, d, NoAsset, 0, 0, r)
           /\ UNCHANGED <<now, inflight>>

\* The outcomes of the calls FindAll makes: at most one collaborator fails.
FindAllFaults ==
    {NoFaults}
    \cup {[NoFaults EXCEPT ![k] = FALSE] :
              k \in {"getIds", "repoQuery", "getBatch", "repoFind", "enrich", "add", "set"}}
    \cup {[NoFaults EXCEPT !.scanFail = k] : k \in 1..(MaxLimit + 1)}

\* The faults that FindAll itself meets, before the sequence is consumed.
FindAllSetupFaults ==
    {NoFaults, [NoFaults EXCEPT !.getIds = FALSE], [NoFaults EXCEPT !.repoQuery = FALSE]}

\* How far the consumer goes: not at all, one element, or to the end.
Takes == {0, 1, Cardinality(IDs) + 1}

DoFindAll ==
    /\ last = Idle
    /\ \E limit \in 0..MaxLimit, offset \in 0..MaxOffset, take \in Takes :
       \E f \in IF take = 0 THEN FindAllSetupFaults ELSE FindAllFaults :
        LET r == FindAll(World, limit, offset, now, f, take)
        IN /\ Apply(r)
           /\ last' = Record("FindAll", "", "", "", NoAsset, limit, offset, r)
           /\ UNCHANGED <<now, inflight>>

\* The outcomes of the calls FindAllByUser and its sequence make.
FindAllByUserFaults ==
    {NoFaults, [NoFaults EXCEPT !.repoQuery = FALSE]}
    \cup {[NoFaults EXCEPT !.scanFail = k] : k \in 1..2}

DoFindAllByUser ==
    /\ last = Idle
    /\ \E u \in Users, limit \in 0..MaxLimit, offset \in 0..MaxOffset, take \in Takes :
       \E f \in IF take = 0 THEN FindAllSetupFaults ELSE FindAllByUserFaults :
        LET r == FindAllByUser(World, u, limit, offset, f, take)
        IN /\ Apply(r)
           /\ last' = Record("FindAllByUser", "", u, "", NoAsset, limit, offset, r)
           /\ UNCHANGED <<now, inflight>>

\* The caller takes the result of the call; the service is ready for the next.
Done ==
    /\ last # Idle
    /\ last' = Idle
    /\ UNCHANGED <<rows, zset, blobs, now, inflight>>

\* A second passes on the clock that time.Now().Unix() reads.
Tick ==
    /\ last = Idle
    /\ now < MaxTime
    /\ now' = now + 1
    /\ UNCHANGED <<rows, zset, blobs, last, inflight>>

\* The 24 h expiry that Adapter.Set puts on a blob runs out.
Expire ==
    /\ last = Idle
    /\ \E id \in DOMAIN blobs :
        /\ blobs' = [k \in DOMAIN blobs \ {id} |-> blobs[k]]
        /\ UNCHANGED <<rows, zset, now, last, inflight>>

Next ==
    \/ DoSave
    \/ DoFindByID
    \/ DoDelete
    \/ DoUpdateDescription
    \/ DoFindAll
    \/ DoFindAllByUser
    \/ Done
    \/ Tick
    \/ Expire

Spec == Init /\ [][Next]_vars

\* ------------------------------------------- index pages of several chunks
\* The cache index of a large collection: n ids, the k-th most recent is
\* ToString(k), every one stored as a Chart of user u1.
ManyIds(n) == [k \in 1..n |-> ToString(k)]

ChunkAsset(id) == Chart(id, "u1", AssetTypeChart, "n", "", "x", "")

\* Index sizes below, at and above one and two chunks of batchSize ids.
ChunkSizes == {2, batchSize, batchSize + 1, 2 * batchSize + 1}

\* The index holds n ids in the order ManyIds(n); the blob of the m-th id is
\* missing (m = 0: none is), and the Store holds every id, the m-th one only
\* if storeHas.
InitChunks ==
    \E n \in ChunkSizes, m \in {0, 1, batchSize, batchSize + 1}, storeHas \in BOOLEAN :
        LET ids == ManyIds(n)
            kept == {k \in 1..n : k # m}
            held == {k \in 1..n : k # m \/ storeHas}
        IN /\ m <= n
           /\ m = 0 => storeHas
           /\ zset = [id \in {ids[k] : k \in 1..n} |->
                         n - (CHOOSE k \in 1..n : ids[k] = id)]
           /\ blobs = [id \in {ids[k] : k \in kept} |-> Marshal(ChunkAsset(id))]
           /\ rows = SelectSeq([j \in 1..n |->
                                   [id |-> ids[j], type |-> AssetTypeChart,
                                    asset_data |-> Marshal(ChunkAsset(ids[j])),
                                    user_id |-> "u1"]],
                               LAMBDA r : r.id \in {ids[k] : k \in held})
           /\ now = n
           /\ last = Idle
           /\ inflight = NoCalls

\* The ids GetIdsFromSet returned for the whole index of InitChunks.
ChunkIds == ManyIds(Cardinality(DOMAIN zset))

\* How far the consumer goes: one element, to the end of the first chunk,
\* into the second chunk, or to the end.
ChunkTakes == {1, batchSize, batchSize + 1, 2 * batchSize + 2}

\* The chunk whose GetBatch fails, if any, whether the Store can be read and
\* whether the blob of a repaired id can be written.
ChunkFaults ==
    {[NoFaults EXCEPT !.batchFail = c, !.repoFind = rf, !.set = st] :
        c \in 0..3, rf \in BOOLEAN, st \in BOOLEAN}

\* The consumer ranges over the sequence chunkedCacheIterator returns for
\* the ids of the index.
DoChunkedIteration ==
    /\ last = Idle
    /\ \E take \in ChunkTakes, f \in ChunkFaults :
        LET it0 == [rows |-> rows, zset |-> zset, blobs |-> blobs, calls |-> <<>>,
                    out |-> <<>>, more |-> TRUE]
            it == chunkedCacheIterator(it0, ChunkIds, 0, now, f, take)
        IN /\ Apply(it)
           /\ last' = Record("chunkedCacheIterator", "", "", "", NoAsset, 0, 0,
                              [err |-> "", asset |-> NoAsset, calls |-> it.calls,
                               out |-> it.out, cursor |-> "none"])
           /\ UNCHANGED <<now, inflight>>

NextChunks == DoChunkedIteration

SpecChunks == InitChunks /\ [][NextChunks]_vars

\* ------------------------------------------------ concurrent read-repairs
\* Service calls run in the goroutine of their request; each collaborator
\* call is a suspension point, so concurrent calls interleave call by call.
Procs == {"p1", "p2"}

\* The id the concurrent calls contend for.
HotId == "a"

\* A call in flight:  op and id are its arguments (FindAll reads the page
\* limit = 1, offset = 0), pc the collaborator call it makes next, asset
\* the asset it read from the Store, left the enrichAndSaveCache calls it
\* still has to make, ret and err what it returned or yielded, fromStore
\* whether it read the Store, addOk and setOk whether a cache write of it
\* succeeded.
Started(op) ==
    [op |-> op, id |-> IF op = "FindByID" THEN HotId ELSE "",
     pc |-> IF op = "FindByID" THEN "cache.GetBatch" ELSE "cache.GetIdsFromSet",
     asset |-> NoAsset, left |-> 0, ret |-> NoAsset, err |-> "",
     fromStore |-> FALSE, addOk |-> FALSE, setOk |-> FALSE]

\* The call of p returns (or its sequence ends) with asset and err.
Finish(c, asset, err) == [c EXCEPT !.pc = "done", !.ret = asset, !.err = err]

\* The Store holds HotId, as a Chart or as an Audience; the cache holds its
\* index entry or not, and its blob, as Save wrote it, or not.
InitRepair ==
    \E a \in {v \in ValidAssets : v.ID = HotId}, inIndex \in BOOLEAN, inBlobs \in BOOLEAN :
        /\ rows = RepoSave(<<>>, a, TRUE).rows
        /\ zset = [k \in (IF inIndex THEN {HotId} ELSE {}) |-> 0]
        /\ blobs = [k \in (IF inBlobs THEN {HotId} ELSE {}) |-> Marshal(a)]
        /\ now = 0
        /\ last = Idle
        /\ inflight \in [Procs -> {Started("FindByID"), Started("FindAll")}]

\* FindAll: s.cache.GetIdsFromSet(ctx, 0, 0).
CallGetIdsFromSet(p) ==
    LET c == inflight[p]
        idx == GetIdsFromSet(zset, 0, 0, TRUE)
    IN /\ c.pc = "cache.GetIdsFromSet"
       /\ inflight' = [inflight EXCEPT ![p] =
              IF Len(idx.ids) > 0
              THEN [c EXCEPT !.id = idx.ids[1], !.pc = "cache.GetBatch"]
              ELSE [c EXCEPT !.pc = "repo.FindAll"]]
       /\ UNCHANGED <<rows, zset, blobs, now, last>>

\* FindByID and chunkedCacheIterator: s.cache.GetBatch for the id; a blob
\* found is decoded and returned or yielded.
CallGetBatch(p) ==
    LET c == inflight[p]
        got == GetBatch(blobs, {c.id}, TRUE)
    IN /\ c.pc = "cache.GetBatch"
       /\ inflight' = [inflight EXCEPT ![p] =
              IF c.id \in DOMAIN got.batch
              THEN Finish(c, unmarshal(got.batch[c.id]).asset, unmarshal(got.batch[c.id]).err)
              ELSE [c EXCEPT !.pc = "repo.FindByID"]]
       /\ UNCHANGED <<rows, zset, blobs, now, last>>

\* FindByID miss and chunkedCacheIterator repair: s.repo.FindByID.
CallRepoFindByID(p) ==
    LET c == inflight[p]
        found == RepoFindByID(rows, c.id, TRUE)
    IN /\ c.pc = "repo.FindByID"
       /\ inflight' = [inflight EXCEPT ![p] =
              IF found.err # "" THEN Finish(c, NoAsset, found.err)
              ELSE [c EXCEPT !.asset = found.asset, !.left = 1, !.fromStore = TRUE,
                             !.pc = "enricher.Enrich"]]
       /\ UNCHANGED <<rows, zset, blobs, now, last>>

\* Store-backed FindAll: s.repo.FindAll(ctx, 1, 0) and the first row of its
\* iterator, which cacheIterator passes to enrichAndSaveCache twice.
CallRepoFindAll(p) ==
    LET c == inflight[p]
        items == RepoFindAllItems(rows, 1, 0, 0)
    IN /\ c.pc = "repo.FindAll"
       /\ inflight' = [inflight EXCEPT ![p] =
              IF items = <<>> THEN Finish(c, NoAsset, "")
              ELSE [c EXCEPT !.id = items[1].asset.ID, !.asset = items[1].asset,
                             !.left = 2, !.fromStore = TRUE, !.pc = "enricher.Enrich"]]
       /\ UNCHANGED <<rows, zset, blobs, now, last>>

\* enrichAndSaveCache: s.enricher.Enrich, which gets the asset by value;
\* its error is logged.
CallEnrich(p) ==
    LET c == inflight[p]
    IN /\ c.pc = "enricher.Enrich"
       /\ inflight' = [inflight EXCEPT ![p] = [c EXCEPT !.pc = "cache.AddToSet"]]
       /\ UNCHANGED <<rows, zset, blobs, now, last>>

\* updateCache: s.cache.AddToSet with the time of the call as score; its
\* error is logged.
CallAddToSet(p) ==
    LET c == inflight[p]
    IN /\ c.pc = "cache.AddToSet"
       /\ \E ok \in BOOLEAN :
            /\ zset' = AddToSet(zset, c.id, now, ok)
            /\ inflight' = [inflight EXCEPT ![p] =
                   [c EXCEPT !.pc = "cache.Set", !.addOk = @ \/ ok]]
       /\ UNCHANGED <<rows, blobs, now, last>>

\* updateCache: s.cache.Set of the asset read from the Store; its error is
\* logged.  Then the asset is returned or yielded, after a second round of
\* enrichAndSaveCache in cacheIterator.
CallSet(p) ==
    LET c == inflight[p]
    IN /\ c.pc = "cache.Set"
       /\ \E ok \in BOOLEAN :
            /\ blobs' = Set(blobs, c.id, Marshal(c.asset), ok)
            /\ inflight' = [inflight EXCEPT ![p] =
                   IF c.left > 1
                   THEN [c EXCEPT !.pc = "enricher.Enrich", !.left = @ - 1,
                                  !.setOk = @ \/ ok]
                   ELSE [Finish(c, c.asset, "") EXCEPT !.left = 0, !.setOk = @ \/ ok]]
       /\ UNCHANGED <<rows, zset, now, last>>

NextRepair ==
    \/ \E p \in Procs : CallGetIdsFromSet(p)
    \/ \E p \in Procs : CallGetBatch(p)
    \/ \E p \in Procs : CallRepoFindByID(p)
    \/ \E p \in Procs : CallRepoFindAll(p)
    \/ \E p \in Procs : CallEnrich(p)
    \/ \E p \in Procs : CallAddToSet(p)
    \/ \E p \in Procs : CallSet(p)
    \/ Tick

SpecRepair == InitRepair /\ [][NextRepair]_vars

\* ------------------------------------------------- the REST API per tenant
\* The requests of authenticated users on /favorites, each handled by its
\* handler; the user id comes from the token, the asset id from the client.
TenantIds == {"a", "b", "c"}

\* The body of POST /favorites for a chart with the client's id.
TenantBody(id) == Chart(id, "", AssetTypeChart, "n", "", "x", "")

\* The strings uuid.NewString() returns.
UUIDs == {"uuid-1", "uuid-2"}

\* generateID: the client's id when it is not empty, otherwise a new uuid.
generateID(currentID, newString) == IF currentID = "" THEN newString ELSE currentID

\* parseAsset that leaves the user_id of the body in the asset.
parseAssetKeepsBodyUser(data, assetType, userID, newString) ==
    IF assetType \notin {AssetTypeChart, AssetTypeInsight, AssetTypeAudience}
    THEN [asset |-> NoAsset, err |-> "unknown asset type"]
    ELSE [asset |-> [data EXCEPT !.ID = generateID(@, newString)], err |-> ""]

\* parseAsset: the body decoded into the concrete type of assetType, with
\* the user of the token written over its user_id and its id generated when
\* the client sent none.
parseAsset(data, assetType, userID, newString) ==
    IF assetType \notin {AssetTypeChart, AssetTypeInsight, AssetTypeAudience}
    THEN [asset |-> NoAsset, err |-> "unknown asset type"]
    ELSE [asset |-> [data EXCEPT !.UserID = userID, !.ID = generateID(@, newString)],
          err |-> ""]

\* The Go type int, with IntBits bits instead of 64 so that the products
\* below stay within the integers of the model checker; arithmetic on it
\* wraps around in two's complement.
IntBits == 16
MaxInt == 2 ^ (IntBits - 1) - 1
MinInt == -(2 ^ (IntBits - 1))
WrapInt(x) == ((x - MinInt) % (2 ^ IntBits)) + MinInt

\* strconv.Atoi of a query value q: 0 (and an error the callers drop) when
\* q is absent or not a number, the nearest int when the number is out of
\* range, otherwise the number.
Atoi(q) ==
    IF ~q.num THEN 0
    ELSE IF q.val > MaxInt THEN MaxInt
    ELSE IF q.val < MinInt THEN MinInt
    ELSE q.val

\* NewPagination: page < 1 is page 1, limit < 1 is 10, limit > 1000 is 1000;
\* the offset is computed in int.
NewPagination(page, limit) ==
    LET pg == IF page < 1 THEN 1 ELSE page
        lm == IF limit < 1 THEN 10 ELSE IF limit > 1000 THEN 1000 ELSE limit
    IN [Limit |-> lm, Offset |-> WrapInt((pg - 1) * lm)]

\* Handler.streamResponse: the elements are encoded one by one, the first
\* error element ends the response.
RECURSIVE streamResponse(_)
streamResponse(out) ==
    IF out = <<>> \/ Head(out).err # "" THEN <<>>
    ELSE <<Head(out)>> \o streamResponse(Tail(out))

\* Handler.List: GET /favorites?page=&limit= of the user of the token.
List(w, userID, page, limit, f) ==
    IF userID = "" THEN [Return(w, "unauthorized", NoAsset) EXCEPT !.out = <<>>]
    ELSE
        LET pg == NewPagination(page, limit)
            r == FindAllByUser(w, userID, pg.Limit, pg.Offset, f, pg.Limit + 1)
        IN IF r.err # "" THEN r ELSE [r EXCEPT !.out = streamResponse(r.out)]

\* The pages and limits of the query string.
Pages == 0..2
Limits == 0..MaxLimit

\* Handler.Create: POST /favorites.
HttpCreate ==
    /\ last = Idle
    /\ \E id \in TenantIds, u \in Users :
        LET a == parseAsset(TenantBody(id), AssetTypeChart, u, "uuid-1").asset
            r == Save(World, a, now, NoFaults)
        IN /\ Apply(r)
           /\ last' = Record("Save", a.ID, a.UserID, "", a, 0, 0, r)
           /\ UNCHANGED <<now, inflight>>

\* Handler.Get: GET /favorites/{id}, by any authenticated user.
HttpGet ==
    /\ last = Idle
    /\ \E id \in TenantIds, u \in Users :
        LET r == FindByID(World, id, now, NoFaults)
        IN /\ Apply(r)
           /\ last' = Record("FindByID", id, u, "", NoAsset, 0, 0, r)
           /\ UNCHANGED <<now, inflight>>

\* Handler.Delete: DELETE /favorites/{id}; the cache remove may fail.
HttpDelete ==
    /\ last = Idle
    /\ \E id \in TenantIds, u \in Users, rm \in BOOLEAN :
        LET r == Delete(World, id, u, [NoFaults EXCEPT !.remove = rm])
        IN /\ Apply(r)
           /\ last' = Record("Delete", id, u, "", NoAsset, 0, 0, r)
           /\ UNCHANGED <<now, inflight>>

HttpList ==
    /\ last = Idle
    /\ \E u \in Users, page \in Pages, limit \in Limits :
        LET r == List(World, u, page, limit, NoFaults)
        IN /\ Apply(r)
           /\ last' = Record("List", "", u, "", NoAsset, limit, page, r)
           /\ UNCHANGED <<now, inflight>>

NextTenants ==
    \/ HttpCreate
    \/ HttpGet
    \/ HttpDelete
    \/ HttpList
    \/ Done

SpecTenants == Init /\ [][NextTenants]_vars

\* ----------------------------------------------------- Validate on its own
\* The values of the fields of the assets handed to Validate.
AnyStrings(v) == {"", v}
AnyTypes == AssetTypes \cup {""}
AnyAges == -1..2

\* The Chart, Insight and Audience values over these field values.
AnyAssets ==
    {Chart(id, "u1", ty, nm, "", x, y) :
        id \in AnyStrings("a"), ty \in AnyTypes, nm \in AnyStrings("n"),
        x \in AnyStrings("x"), y \in AnyStrings("y")}
    \cup {Insight(id, "u1", ty, nm, "", c) :
        id \in AnyStrings("a"), ty \in AnyTypes, nm \in AnyStrings("n"),
        c \in AnyStrings("c")}
    \cup {Audience(id, "u1", ty, nm, "",
                   [Gender |-> "", Country |-> co, AgeMin |-> lo, AgeMax |-> hi]) :
        id \in AnyStrings("a"), ty \in AnyTypes, nm \in AnyStrings("n"),
        co \in AnyStrings("GR"), lo \in AnyAges, hi \in AnyAges}

\* A caller holds an asset it has not validated yet.
InitValidate ==
    /\ rows = <<>>
    /\ zset = [k \in {} |-> 0]
    /\ blobs = [k \in {} |-> 0]
    /\ now = 0
    /\ inflight = NoCalls
    /\ \E a \in AnyAssets : last = [Idle EXCEPT !.arg = a]

\* asset.Validate().
DoValidate ==
    /\ last.op = "none"
    /\ last' = [last EXCEPT !.op = "Validate", !.err = Validate(last.arg)]
    /\ UNCHANGED <<rows, zset, blobs, now, inflight>>

NextValidate == DoValidate

SpecValidate == InitValidate /\ [][NextValidate]_vars

\* ------------------------------------------- blobs of an unsupported kind
\* The blob of asset a as a writer with a kind this service does not know
\* left it under favorite:<id>.
ForeignBlob(a) == [Marshal(a) EXCEPT !.type = "table"]

\* The assets the Store holds in the states below, most recent first.
DecodeAssets ==
    <<Insight("b", OwnerOf("b"), AssetTypeInsight, "n", "", "c"),
      Chart("a", OwnerOf("a"), AssetTypeChart, "n", "", "x", "")>>

\* The Store holds both assets and the index both ids, in either order; the
\* blob of each id is the one Save wrote, a blob of an unsupported kind, or
\* missing.
InitDecode ==
    \E sa \in 0..1, sb \in 0..1, ka \in {"own", "foreign", "none"},
       kb \in {"own", "foreign", "none"} :
        LET kind == [id \in IDs |-> IF id = "a" THEN ka ELSE kb]
            asset == [id \in IDs |-> IF id = "a" THEN DecodeAssets[2] ELSE DecodeAssets[1]]
        IN /\ rows = RepoSave(RepoSave(<<>>, DecodeAssets[2], TRUE).rows,
                              DecodeAssets[1], TRUE).rows
           /\ zset = [id \in IDs |-> IF id = "a" THEN sa ELSE sb]
           /\ blobs = [id \in {i \in IDs : kind[i] # "none"} |->
                          IF kind[id] = "own" THEN Marshal(asset[id])
                          ELSE ForeignBlob(asset[id])]
           /\ now = 0
           /\ last = Idle
           /\ inflight = NoCalls

NextDecode ==
    \/ DoFindByID
    \/ DoFindAll
    \/ Done

SpecDecode == InitDecode /\ [][NextDecode]_vars

\* ------------------------------------------------- the cache adapter alone
\* The calls a client of redis.Adapter makes on its write methods, for the
\* ids TenantIds, with the scores 0..MaxTime and two payloads.
Payloads == {Marshal(TenantBody("a")), ForeignBlob(TenantBody("a"))}

\* The record of an adapter call in `last`.
AdapterCall(fn, id, ok) ==
    Record(fn, id, "", "", NoAsset, 0, 0,
           [err |-> IF ok THEN "" ELSE "redis error", asset |-> NoAsset,
            calls |-> <<Call(fn, id, ok)>>, out |-> <<>>, cursor |-> "none"])

CacheAddToSet ==
    \E id \in TenantIds, score \in 0..MaxTime, ok \in BOOLEAN :
        /\ zset' = AddToSet(zset, id, score, ok)
        /\ last' = AdapterCall("cache.AddToSet", id, ok)
        /\ UNCHANGED <<rows, blobs, now, inflight>>

CacheSet ==
    \E id \in TenantIds, data \in Payloads, ok \in BOOLEAN :
        /\ blobs' = Set(blobs, id, data, ok)
        /\ last' = AdapterCall("cache.Set", id, ok)
        /\ UNCHANGED <<rows, zset, now, inflight>>

CacheRemove ==
    \E id \in TenantIds, ok \in BOOLEAN :
        LET r == Remove(zset, blobs, id, ok)
        IN /\ zset' = r.zset
           /\ blobs' = r.blobs
           /\ last' = AdapterCall("cache.Remove", id, ok)
           /\ UNCHANGED <<rows, now, inflight>>

CacheInvalidate ==
    \E id \in TenantIds, ok \in BOOLEAN :
        LET r == Invalidate(zset, blobs, id, ok)
        IN /\ zset' = r.zset
           /\ blobs' = r.blobs
           /\ last' = AdapterCall("cache.Invalidate", id, ok)
           /\ UNCHANGED <<rows, now, inflight>>

NextCache ==
    \/ CacheAddToSet
    \/ CacheSet
    \/ CacheRemove
    \/ CacheInvalidate

SpecCache == Init /\ [][NextCache]_vars

\* --------------------------------------- Delete concurrent with a repair
Forbidden == "forbidden: you do not own this asset"

\* Delete(HotId, owner) in one goroutine and a FindByID(HotId) or a
\* FindAll(1, 0) in another, interleaved at their collaborator calls; the
\* steps of the reader are those of the concurrent read-repairs above.
Deleter == "p1"
Reader == "p2"

\* The Delete call before its first collaborator call.
StartedDelete ==
    [Started("FindByID") EXCEPT !.op = "Delete", !.pc = "Delete: repo.FindByID"]

InitDeleteRace ==
    \E a \in {v \in ValidAssets : v.ID = HotId}, inIndex \in BOOLEAN, inBlobs \in BOOLEAN :
        /\ rows = RepoSave(<<>>, a, TRUE).rows
        /\ zset = [k \in (IF inIndex THEN {HotId} ELSE {}) |-> 0]
        /\ blobs = [k \in (IF inBlobs THEN {HotId} ELSE {}) |-> Marshal(a)]
        /\ now = 0
        /\ last = Idle
        /\ \E op \in {"FindByID", "FindAll"} :
              inflight = [p \in Procs |-> IF p = Deleter THEN StartedDelete ELSE Started(op)]

\* Delete: s.repo.FindByID and the ownership check, by the owner of the asset.
DeleteFindByID(p) ==
    LET c == inflight[p]
        found == RepoFindByID(rows, c.id, TRUE)
    IN /\ c.pc = "Delete: repo.FindByID"
       /\ inflight' = [inflight EXCEPT ![p] =
              IF found.err # "" THEN Finish(c, NoAsset, found.err)
              ELSE IF found.asset.UserID # OwnerOf(c.id) THEN Finish(c, NoAsset, Forbidden)
              ELSE [c EXCEPT !.pc = "Delete: repo.Delete"]]
       /\ UNCHANGED <<rows, zset, blobs, now, last>>

\* Delete: s.repo.Delete.
DeleteRepoDelete(p) ==
    LET c == inflight[p]
        del == RepoDelete(rows, c.id, TRUE)
    IN /\ c.pc = "Delete: repo.Delete"
       /\ rows' = del.rows
       /\ inflight' = [inflight EXCEPT ![p] =
              IF del.err # "" THEN Finish(c, NoAsset, del.err)
              ELSE [c EXCEPT !.pc = "Delete: cache.Remove"]]
       /\ UNCHANGED <<zset, blobs, now, last>>

\* Delete: return s.cache.Remove(ctx, id).
DeleteCacheRemove(p) ==
    LET c == inflight[p]
    IN /\ c.pc = "Delete: cache.Remove"
       /\ \E ok \in BOOLEAN :
            LET rem == Remove(zset, blobs, c.id, ok)
            IN /\ zset' = rem.zset
               /\ blobs' = rem.blobs
               /\ inflight' = [inflight EXCEPT ![p] =
                      Finish(c, NoAsset, IF ok THEN "" ELSE "redis error")]
       /\ UNCHANGED <<rows, now, last>>

NextDeleteRace ==
    \/ DeleteFindByID(Deleter)
    \/ DeleteRepoDelete(Deleter)
    \/ DeleteCacheRemove(Deleter)
    \/ CallGetIdsFromSet(Reader)
    \/ CallGetBatch(Reader)
    \/ CallRepoFindByID(Reader)
    \/ CallRepoFindAll(Reader)
    \/ CallEnrich(Reader)
    \/ CallAddToSet(Reader)
    \/ CallSet(Reader)
    \/ Tick

SpecDeleteRace == InitDeleteRace /\ [][NextDeleteRace]_vars

\* ------------------------------ UpdateDescription concurrent with a repair
\* UpdateDescription(HotId, d, owner) in one goroutine and FindByID(HotId)
\* in another, interleaved at their collaborator calls.
NewDescription == "d1"

\* The UpdateDescription call before its first collaborator call.
StartedUpdate ==
    [Started("FindByID") EXCEPT !.op = "UpdateDescription",
                                !.pc = "UpdateDescription: repo.FindByID"]

InitUpdateRace ==
    \E a \in {v \in ValidAssets : v.ID = HotId}, inIndex \in BOOLEAN, inBlobs \in BOOLEAN :
        /\ rows = RepoSave(<<>>, a, TRUE).rows
        /\ zset = [k \in (IF inIndex THEN {HotId} ELSE {}) |-> 0]
        /\ blobs = [k \in (IF inBlobs THEN {HotId} ELSE {}) |-> Marshal(a)]
        /\ now = 0
        /\ last = Idle
        /\ inflight = [p \in Procs |->
                          IF p = Deleter THEN StartedUpdate ELSE Started("FindByID")]

\* UpdateDescription: s.repo.FindByID and the ownership check, by the owner.
UpdateFindByID(p) ==
    LET c == inflight[p]
        found == RepoFindByID(rows, c.id, TRUE)
    IN /\ c.pc = "UpdateDescription: repo.FindByID"
       /\ inflight' = [inflight EXCEPT ![p] =
              IF found.err # "" THEN Finish(c, NoAsset, found.err)
              ELSE IF found.asset.UserID # OwnerOf(c.id) THEN Finish(c, NoAsset, Forbidden)
              ELSE [c EXCEPT !.pc = "UpdateDescription: repo.UpdateDescription"]]
       /\ UNCHANGED <<rows, zset, blobs, now, last>>

\* UpdateDescription: s.repo.UpdateDescription.
UpdateRepoUpdate(p) ==
    LET c == inflight[p]
        upd == RepoUpdateDescription(rows, c.id, NewDescription, TRUE)
    IN /\ c.pc = "UpdateDescription: repo.UpdateDescription"
       /\ rows' = upd.rows
       /\ inflight' = [inflight EXCEPT ![p] =
              IF upd.err # "" THEN Finish(c, NoAsset, upd.err)
              ELSE [c EXCEPT !.asset = upd.asset, !.pc = "UpdateDescription: cache.Remove"]]
       /\ UNCHANGED <<zset, blobs, now, last>>

\* UpdateDescription: s.cache.Remove, whose error is logged; setOk records
\* that the removal succeeded.  Then the updated asset is returned.
UpdateCacheRemove(p) ==
    LET c == inflight[p]
    IN /\ c.pc = "UpdateDescription: cache.Remove"
       /\ \E ok \in BOOLEAN :
            LET rem == Remove(zset, blobs, c.id, ok)
            IN /\ zset' = rem.zset
               /\ blobs' = rem.blobs
               /\ inflight' = [inflight EXCEPT ![p] =
                      [Finish(c, c.asset, "") EXCEPT !.setOk = ok]]
       /\ UNCHANGED <<rows, now, last>>

NextUpdateRace ==
    \/ UpdateFindByID(Deleter)
    \/ UpdateRepoUpdate(Deleter)
    \/ UpdateCacheRemove(Deleter)
    \/ CallGetBatch(Reader)
    \/ CallRepoFindByID(Reader)
    \/ CallEnrich(Reader)
    \/ CallAddToSet(Reader)
    \/ CallSet(Reader)
    \/ Tick

SpecUpdateRace == InitUpdateRace /\ [][NextUpdateRace]_vars

\* ------------------------------------------- repeated reads of a page
\* Saves, deletes, expiries and reads of pages, one call at a time.
NextOrphan ==
    \/ DoSave
    \/ DoDelete
    \/ DoFindAll
    \/ Done
    \/ Expire

\* Every call returns.
SpecOrphan ==
    Init /\ [][NextOrphan]_vars /\ WF_vars(Done)

\* --------------------------------------- calls without collaborator failure
\* The service calls one at a time, with a cache, a Store and an Enricher
\* that do not fail, and blobs that do not expire.
ReliableSave ==
    /\ last = Idle
    /\ \E a \in SaveInputs :
        LET r == Save(World, a, now, NoFaults)
        IN /\ Apply(r)
           /\ last' = Record("Save", a.ID, a.UserID, "", a, 0, 0, r)
           /\ UNCHANGED <<now, inflight>>

ReliableFindByID ==
    /\ last = Idle
    /\ \E id \in IDs :
        LET r == FindByID(World, id, now, NoFaults)
        IN /\ Apply(r)
           /\ last' = Record("FindByID", id, "", "", NoAsset, 0, 0, r)
           /\ UNCHANGED <<now, inflight>>

ReliableDelete ==
    /\ last = Idle
    /\ \E id \in IDs, u \in Users :
        LET r == Delete(World, id, u, NoFaults)
        IN /\ Apply(r)
           /\ last' = Record("Delete", id, u, "", NoAsset, 0, 0, r)
           /\ UNCHANGED <<now, inflight>>

ReliableUpdateDescription ==
    /\ last = Idle
    /\ \E id \in IDs, u \in Users, d \in Descriptions :
        LET r == UpdateDescription(World, id, d, u, NoFaults)
        IN /\ Apply(r)
           /\ last' = Record("UpdateDescription", id, u, d, NoAsset, 0, 0, r)
           /\ UNCHANGED <<now, inflight>>

ReliableFindAll ==
    /\ last = Idle
    /\ \E limit \in 0..MaxLimit, offset \in 0..MaxOffset, take \in Takes :
        LET r == FindAll(World, limit, offset, now, NoFaults, take)
        IN /\ Apply(r)
           /\ last' = Record("FindAll", "", "", "", NoAsset, limit, offset, r)
           /\ UNCHANGED <<now, inflight>>

ReliableFindAllByUser ==
    /\ last = Idle
    /\ \E u \in Users, limit \in 0..MaxLimit, offset \in 0..MaxOffset, take \in Takes :
        LET r == FindAllByUser(World, u, limit, offset, NoFaults, take)
        IN /\ Apply(r)
           /\ last' = Record("FindAllByUser", "", u, "", NoAsset, limit, offset, r)
           /\ UNCHANGED <<now, inflight>>

NextReliable ==
    \/ ReliableSave
    \/ ReliableFindByID
    \/ ReliableDelete
    \/ ReliableUpdateDescription
    \/ ReliableFindAll
    \/ ReliableFindAllByUser
    \/ Done
    \/ Tick

SpecReliable == Init /\ [][NextReliable]_vars

\* ------------------------------------------ the chunks of a cache-backed read
\* The outer loop of chunkedCacheIterator, one step per GetBatch call and
\* per element yielded.  inflight is the state of the iterator: ids the
\* index ids, i the loop variable, chunkIds the current chunk and k the
\* position in it, batches the chunks GetBatch was called with, in call
\* order, yielded the number of elements that reached the consumer.
InitBatches ==
    \E n \in ChunkSizes :
        LET ids == ManyIds(n)
        IN /\ zset = [id \in {ids[k] : k \in 1..n} |->
                         n - (CHOOSE k \in 1..n : ids[k] = id)]
           /\ blobs = [id \in {ids[k] : k \in 1..n} |-> Marshal(ChunkAsset(id))]
           /\ rows = [j \in 1..n |->
                         [id |-> ids[j], type |-> AssetTypeChart,
                          asset_data |-> Marshal(ChunkAsset(ids[j])),
                          user_id |-> "u1"]]
           /\ now = n
           /\ last = Idle
           /\ inflight = [ids |-> ids, i |-> 0, chunkIds |-> <<>>, k |-> 0,
                          batches |-> <<>>, yielded |-> 0, pc |-> "for i"]

\* The loop step that asks GetBatch for all the ids from i on.
FetchChunkRestOfIndex ==
    LET c == inflight
        end == Len(c.ids)
        chunk == SubSeq(c.ids, c.i + 1, end)
    IN /\ c.pc = "for i"
       /\ IF c.i >= Len(c.ids)
          THEN inflight' = [c EXCEPT !.pc = "done"]
          ELSE \E ok \in BOOLEAN :
                 LET got == GetBatch(blobs, {chunk[j] : j \in 1..Len(chunk)}, ok)
                 IN inflight' = [c EXCEPT !.chunkIds = chunk, !.k = 1,
                                          !.batches = Append(@, chunk),
                                          !.yielded = IF got.err # "" THEN @ + 1 ELSE @,
                                          !.pc = IF got.err # "" THEN "done" ELSE "for id"]
       /\ UNCHANGED <<rows, zset, blobs, now, last>>

\* for i := 0; i < len(ids); i += batchSize: the slice ids[i:end] and the
\* GetBatch call for it, whose error ends the sequence.
FetchChunk ==
    LET c == inflight
        end == IF c.i + batchSize > Len(c.ids) THEN Len(c.ids) ELSE c.i + batchSize
        chunk == SubSeq(c.ids, c.i + 1, end)
    IN /\ c.pc = "for i"
       /\ IF c.i >= Len(c.ids)
          THEN inflight' = [c EXCEPT !.pc = "done"]
          ELSE \E ok \in BOOLEAN :
                 LET got == GetBatch(blobs, {chunk[j] : j \in 1..Len(chunk)}, ok)
                 IN inflight' = [c EXCEPT !.chunkIds = chunk, !.k = 1,
                                          !.batches = Append(@, chunk),
                                          !.yielded = IF got.err # "" THEN @ + 1 ELSE @,
                                          !.pc = IF got.err # "" THEN "done" ELSE "for id"]
       /\ UNCHANGED <<rows, zset, blobs, now, last>>

\* for _, id := range chunkIds: the blob of id is yielded; the consumer
\* goes on (more) or breaks out of its loop.
YieldFromChunk ==
    LET c == inflight
    IN /\ c.pc = "for id"
       /\ c.chunkIds[c.k] \in DOMAIN blobs
       /\ \E more \in BOOLEAN :
            inflight' =
                IF ~more THEN [c EXCEPT !.yielded = @ + 1, !.pc = "done"]
                ELSE IF c.k < Len(c.chunkIds)
                THEN [c EXCEPT !.yielded = @ + 1, !.k = @ + 1]
                ELSE [c EXCEPT !.yielded = @ + 1, !.i = @ + batchSize, !.pc = "for i"]
       /\ UNCHANGED <<rows, zset, blobs, now, last>>

NextBatches == FetchChunk \/ YieldFromChunk

SpecBatches == InitBatches /\ [][NextBatches]_vars

\* ------------------------------------------------------- POST /favorites
\* The value of userIDKey in the request context: absent (ok is FALSE),
\* empty, or the id of the authenticated user.
Contexts ==
    {[ok |-> FALSE, userID |-> ""]} \cup {[ok |-> TRUE, userID |-> u] : u \in {""} \cup Users}

\* The bodies of the request, as json.Unmarshal decodes them: of each type
\* and of an unknown one, with or without an id, with any user_id.
CreateBodies ==
    UNION {{Chart(id, bu, AssetTypeChart, "n", "", "x", ""),
            Insight(id, bu, AssetTypeInsight, "n", "", "c"),
            Audience(id, bu, AssetTypeAudience, "n", "",
                     [Gender |-> "", Country |-> "GR", AgeMin |-> 18, AgeMax |-> 0]),
            Chart(id, bu, "table", "n", "", "x", "")} :
           id \in {"", "a"}, bu \in {""} \cup Users}

\* Handler.Create.  The record of the request keeps the user of the context
\* in user, the id and the user_id of the body in id and desc, and in arg the
\* asset passed to Service.Save (NoAsset when Save is not called).
Create ==
    /\ last = Idle
    /\ \E ctx \in Contexts, body \in CreateBodies, newString \in UUIDs, sv \in BOOLEAN :
        LET authorized == ctx.ok /\ ctx.userID # ""
            parsed == parseAsset(body, body.Type, ctx.userID, newString)
            r == IF ~authorized THEN Return(World, "unauthorized", NoAsset)
                 ELSE IF parsed.err # "" THEN Return(World, parsed.err, NoAsset)
                 ELSE Save(World, parsed.asset, now, [NoFaults EXCEPT !.repoSave = sv])
        IN /\ Apply(r)
           /\ last' = Record("Create", body.ID, ctx.userID, body.UserID,
                              IF authorized /\ parsed.err = "" THEN parsed.asset ELSE NoAsset,
                              0, 0, r)
           /\ UNCHANGED <<now, inflight>>

NextCreate == Create \/ Done

SpecCreate == Init /\ [][NextCreate]_vars

\* ------------------------------------------------- ?page= and ?limit=
\* The values of a query parameter: absent or not a number, and numbers
\* around zero, around the limit cap and around the ends of int.
QueryValues ==
    {[num |-> FALSE, val |-> 0]}
    \cup {[num |-> TRUE, val |-> v] :
             v \in {MinInt - 1, MinInt, -1, 0, 1, 2, 3, 10, 999, 1000, 1001,
                    MaxInt \div 1000, MaxInt \div 1000 + 2, MaxInt - 1, MaxInt, MaxInt + 1}}

\* A request with its query string, before NewPagination is called.
InitPagination ==
    /\ rows = <<>>
    /\ zset = [k \in {} |-> 0]
    /\ blobs = [k \in {} |-> 0]
    /\ now = 0
    /\ last = Idle
    /\ \E p \in QueryValues, l \in QueryValues : inflight = [page |-> p, limit |-> l]

\* NewPagination(r) for the request; its Limit and Offset are kept in last.
DoNewPagination ==
    /\ last = Idle
    /\ LET pg == NewPagination(Atoi(inflight.page), Atoi(inflight.limit))
       IN last' = [Idle EXCEPT !.op = "NewPagination", !.limit = pg.Limit,
                               !.offset = pg.Offset]
    /\ UNCHANGED <<rows, zset, blobs, now, inflight>>

NextPagination == DoNewPagination

SpecPagination == InitPagination /\ [][NextPagination]_vars

\* ------------------------------------------------------------------ claims
\* The names of the collaborator calls of a service call, in call order.
CallNames(calls) == [i \in 1..Len(calls) |-> calls[i].fn]

\* Some call of `calls` is call c.
HasCall(calls, c) == \E i \in 1..Len(calls) : calls[i] = c

\* The Enricher and Cache calls among `calls`.
IsCacheOrEnricher(fn) ==
    fn \in {"enricher.Enrich", "cache.AddToSet", "cache.Set", "cache.GetBatch",
            "cache.GetIdsFromSet", "cache.Remove"}

\* C1: a Save of a valid asset whose Store save succeeds calls repo.Save,
\* enricher.Enrich, cache.AddToSet and cache.Set in that order, each exactly
\* once and for the asset's id; and in no Save does an Enricher or Cache call
\* come before a repo.Save call that returned success.
C1_SaveCallOrder ==
    last.op = "Save" =>
        /\ (Validate(last.arg) = "" /\ HasCall(last.calls, Call("repo.Save", last.id, TRUE)))
              => /\ CallNames(last.calls)
                      = <<"repo.Save", "enricher.Enrich", "cache.AddToSet", "cache.Set">>
                 /\ \A i \in 1..Len(last.calls) : last.calls[i].id = last.id
        /\ \A i \in 1..Len(last.calls) :
              IsCacheOrEnricher(last.calls[i].fn)
                  => \E j \in 1..(i - 1) : last.calls[j] = Call("repo.Save", last.id, TRUE)

C1_Witness ==
    /\ last.op = "Save"
    /\ last.err = ""
    /\ Len(last.calls) = 4
    /\ last.id \in DOMAIN blobs

\* C2: Delete returns success whenever the ownership check passed and
\* repo.Delete succeeded, whatever cache.Remove returned.
C2_DeleteSwallowsRemoveError ==
    (last.op = "Delete" /\ HasCall(last.calls, Call("repo.Delete", last.id, TRUE)))
        => last.err = ""

\* Number of elements of a FindAll sequence that are assets, not errors.
RECURSIVE NumAssets(_)
NumAssets(out) ==
    IF out = <<>> THEN 0
    ELSE (IF Head(out).err = "" THEN 1 ELSE 0) + NumAssets(Tail(out))

\* C3: the sequence FindAll(limit, offset) returns yields at most limit assets,
\* on the cache-backed and on the Store-backed path.
C3_FindAllAtMostLimit ==
    last.op = "FindAll" => NumAssets(last.out) <= last.limit

\* The asset the Store holds for id, as Repository.FindByID decodes it.
Stored(id) == unmarshalAsset(RowOf(rows, id).type, RowOf(rows, id).asset_data).asset

\* The FindByID outcomes in which the Store can be read.
StoreReadable == {f \in FindByIDFaults : f.repoFind}

C5_FailedSaveLeavesCache ==
    [][(last'.op = "Save" /\ last'.err # "") =>
          /\ \A i \in 1..Len(last'.calls) : ~IsCacheOrEnricher(last'.calls[i].fn)
          /\ zset' = zset
          /\ blobs' = blobs
          /\ Validate(last'.arg) # "" => (last'.calls = <<>> /\ rows' = rows)]_vars

C5_Witness ==
    /\ last.op = "Save"
    /\ last.err = "failed to save to db"
    /\ Validate(last.arg) = ""
    /\ last.calls = <<Call("repo.Save", last.id, FALSE)>>
    /\ DOMAIN blobs # {}

\* C6: Save returns success whenever validation passes and repo.Save
\* succeeds, whatever enricher.Enrich, cache.AddToSet and cache.Set return.
C6_SaveSucceedsDespiteCache ==
    (/\ last.op = "Save"
     /\ Validate(last.arg) = ""
     /\ HasCall(last.calls, Call("repo.Save", last.id, TRUE))) => last.err = ""

C6_Witness ==
    /\ last.op = "Save"
    /\ last.err = ""
    /\ HasCall(last.calls, Call("enricher.Enrich", last.id, FALSE))
    /\ HasCall(last.calls, Call("cache.AddToSet", last.id, FALSE))
    /\ HasCall(last.calls, Call("cache.Set", last.id, FALSE))

\* C7: when cache.GetBatch returns the blob of id, FindByID(id) returns the
\* decoded blob, makes no other call (no Store, Enricher or cache write) and
\* changes neither the Store nor the cache.
C7_CacheHitTouchesNothing ==
    [][(/\ last'.op = "FindByID"
        /\ last'.id \in DOMAIN blobs
        /\ last'.calls # <<>>
        /\ last'.calls[1] = Call("cache.GetBatch", last'.id, TRUE)) =>
          /\ last'.calls = <<Call("cache.GetBatch", last'.id, TRUE)>>
          /\ last'.err = unmarshal(blobs[last'.id]).err
          /\ last'.asset = unmarshal(blobs[last'.id]).asset
          /\ last'.asset.ID = last'.id
          /\ rows' = rows /\ zset' = zset /\ blobs' = blobs]_vars

C7_Witness ==
    /\ last.op = "FindByID"
    /\ last.calls = <<Call("cache.GetBatch", last.id, TRUE)>>
    /\ last.err = ""
    /\ last.asset.ID = last.id

\* C8: when the cache holds no blob of id and the Store returns id,
\* FindByID(id) calls repo.FindByID once, enricher.Enrich once, cache.AddToSet
\* once and cache.Set once, all for id and after the cache read, and returns
\* the Store's asset.
C8_CacheMissRepairs ==
    [][(/\ last'.op = "FindByID"
        /\ last'.id \notin DOMAIN blobs
        /\ last'.id \in RowIds(rows)
        /\ HasCall(last'.calls, Call("repo.FindByID", last'.id, TRUE))) =>
          /\ CallNames(last'.calls)
                = <<"cache.GetBatch", "repo.FindByID", "enricher.Enrich",
                    "cache.AddToSet", "cache.Set">>
          /\ \A i \in 1..Len(last'.calls) : last'.calls[i].id = last'.id
          /\ last'.err = ""
          /\ last'.asset = Stored(last'.id)
          /\ rows' = rows]_vars

C8_Witness ==
    /\ last.op = "FindByID"
    /\ Len(last.calls) = 5
    /\ last.calls[1] = Call("cache.GetBatch", last.id, TRUE)
    /\ last.asset.ID = last.id
    /\ last.id \in DOMAIN blobs
    /\ last.id \in DOMAIN zset

\* C9: Delete and UpdateDescription by a caller who is not the owner of the
\* Store's copy return Forbidden, call neither repo.Delete, nor
\* repo.UpdateDescription, nor the cache, and change neither Store nor cache.
C9_NonOwnerIsForbidden ==
    [][(/\ last'.op \in {"Delete", "UpdateDescription"}
        /\ last'.id \in RowIds(rows)
        /\ RowOf(rows, last'.id).user_id # last'.user
        /\ HasCall(last'.calls, Call("repo.FindByID", last'.id, TRUE))) =>
          /\ last'.err = Forbidden
          /\ last'.calls = <<Call("repo.FindByID", last'.id, TRUE)>>
          /\ rows' = rows /\ zset' = zset /\ blobs' = blobs]_vars

C9_Witness ==
    /\ last.op = "Delete"
    /\ last.err = Forbidden
    /\ last.id \in RowIds(rows)
    /\ last.id \in DOMAIN blobs

\* Same id, same kind and same variant-specific fields.
SameVariantFields(x, y) ==
    /\ x.ID = y.ID
    /\ x.variant = y.variant
    /\ x.Type = y.Type
    /\ x.XAxis = y.XAxis
    /\ x.YAxis = y.YAxis
    /\ x.Content = y.Content
    /\ x.Rules = y.Rules

NumCalls(calls, fn, id) ==
    Cardinality({i \in 1..Len(calls) : calls[i].fn = fn /\ calls[i].id = id})

\* The consumer ranges over the whole sequence.
FullTake == Cardinality(IDs) + 1

\* The outcomes of the Enricher and the cache writes, all reads succeeding.
WriteFaults ==
    {[NoFaults EXCEPT !.enrich = en, !.add = ad, !.set = st] : en, ad, st \in BOOLEAN}

\* The ids the cache index returns for the page (limit, offset).
IndexIds(limit, offset) == GetIdsFromSet(zset, offset, offset + limit - 1, TRUE).ids

\* The id can be served: its blob is cached or the Store holds its row.
Readable(id) == id \in DOMAIN blobs \/ id \in RowIds(rows)

\* C11: in a cache-backed FindAll, an id of the page whose blob is missing
\* and whose row the Store holds is fetched from the Store once, enriched
\* once, written through to the cache once, yielded at its position in the
\* page, and the iteration goes on to the next id of the page.
C11_RepairInPlace ==
    last = Idle =>
        \A limit \in 0..MaxLimit, offset \in 0..MaxOffset, f \in WriteFaults :
            LET ids == IndexIds(limit, offset)
                r == FindAll(World, limit, offset, now, f, FullTake)
            IN \A k \in 1..Len(ids) :
                 (/\ ids[k] \notin DOMAIN blobs
                  /\ ids[k] \in RowIds(rows)
                  /\ \A j \in 1..(k - 1) : Readable(ids[j])) =>
                    /\ Len(r.out) >= k
                    /\ r.out[k] = [asset |-> Stored(ids[k]), err |-> ""]
                    /\ NumCalls(r.calls, "repo.FindByID", ids[k]) = 1
                    /\ NumCalls(r.calls, "enricher.Enrich", ids[k]) = 1
                    /\ NumCalls(r.calls, "cache.AddToSet", ids[k]) = 1
                    /\ NumCalls(r.calls, "cache.Set", ids[k]) = 1
                    /\ f.add => (ids[k] \in DOMAIN r.zset /\ r.zset[ids[k]] = now)
                    /\ f.set => (/\ ids[k] \in DOMAIN r.blobs
                                 /\ unmarshal(r.blobs[ids[k]]).asset = Stored(ids[k]))
                    /\ (k < Len(ids) /\ Readable(ids[k + 1])) =>
                          /\ Len(r.out) >= k + 1
                          /\ r.out[k + 1].err = ""
                          /\ r.out[k + 1].asset.ID = ids[k + 1]

C11_Witness ==
    /\ last.op = "FindAll"
    /\ Len(last.out) = 2
    /\ HasCall(last.calls, Call("repo.FindByID", last.out[1].asset.ID, TRUE))
    /\ HasCall(last.calls, Call("cache.Set", last.out[1].asset.ID, TRUE))
    /\ last.out[2].err = ""
    /\ last.out[2].asset.ID # last.out[1].asset.ID

\* The asset FindAll serves for an id of the index page: the decoded blob, or
\* the Store's copy when the blob is missing.
Served(id) ==
    IF id \in DOMAIN blobs THEN unmarshal(blobs[id]).asset ELSE Stored(id)

\* C12: absent errors, a cache-backed FindAll yields one asset per id of the
\* index page, in the order of those ids, and a Store-backed FindAll yields
\* the decoded rows of the Store's page, in the Store's order.
C12_FindAllKeepsOrder ==
    last = Idle =>
        \A limit \in 0..MaxLimit, offset \in 0..MaxOffset, f \in WriteFaults :
            LET ids == IndexIds(limit, offset)
                page == Page(rows, limit, offset)
                r == FindAll(World, limit, offset, now, f, FullTake)
            IN /\ r.err = ""
               /\ (Len(ids) > 0 /\ \A k \in 1..Len(ids) : Readable(ids[k])) =>
                     /\ Len(r.out) = Len(ids)
                     /\ \A k \in 1..Len(ids) :
                          /\ r.out[k] = [asset |-> Served(ids[k]), err |-> ""]
                          /\ r.out[k].asset.ID = ids[k]
               /\ Len(ids) = 0 =>
                     /\ Len(r.out) = Len(page)
                     /\ \A k \in 1..Len(page) :
                          /\ r.out[k] = [asset |-> Stored(page[k].id), err |-> ""]
                          /\ r.out[k].asset.ID = page[k].id

C12_Witness ==
    /\ last.op = "FindAll"
    /\ CallNames(last.calls) = <<"cache.GetIdsFromSet", "cache.GetBatch">>
    /\ Len(last.out) = 2
    /\ last.out[1].err = "" /\ last.out[2].err = ""
    /\ zset[last.out[1].asset.ID] > zset[last.out[2].asset.ID]

\* Sequence p is an initial part of sequence q.
IsPrefix(p, q) == Len(p) <= Len(q) /\ SubSeq(q, 1, Len(p)) = p

\* The cache entries of the ids other than id are in w what they are now.
OthersUntouched(w, id) ==
    \A o \in IDs \ {id} :
        /\ (o \in DOMAIN w.blobs) = (o \in DOMAIN blobs)
        /\ o \in DOMAIN blobs => w.blobs[o] = blobs[o]
        /\ (o \in DOMAIN w.zset) = (o \in DOMAIN zset)
        /\ o \in DOMAIN zset => w.zset[o] = zset[o]

\* C13: when the consumer breaks at the first element of a FindAll sequence,
\* the service has made only the calls it makes up to that element: they are
\* an initial part of the calls of the full iteration, none of them is for
\* another id, and no cache entry of another id is written; on the
\* cache-backed and on the Store-backed path.
C13_NoCallAfterBreak ==
    last = Idle =>
        \A limit \in 0..MaxLimit, offset \in 0..MaxOffset, f \in FindAllFaults :
            LET full == FindAll(World, limit, offset, now, f, FullTake)
                r == FindAll(World, limit, offset, now, f, 1)
            IN Len(full.out) >= 1 =>
                 /\ r.out = <<full.out[1]>>
                 /\ IsPrefix(r.calls, full.calls)
                 /\ r.rows = rows
                 /\ full.out[1].err = "" =>
                       /\ \A i \in 1..Len(r.calls) :
                              r.calls[i].id \in {"*", full.out[1].asset.ID}
                       /\ OthersUntouched(r, full.out[1].asset.ID)
                 /\ (/\ Len(full.out) >= 2
                     /\ full.out[2].err = ""
                     /\ HasCall(full.calls, Call("repo.FindAll", "*", TRUE)))
                       => Len(r.calls) < Len(full.calls)

C13_Witness ==
    /\ last.op = "FindAll"
    /\ last.limit = 2 /\ last.offset = 0
    /\ HasCall(last.calls, Call("repo.FindAll", "*", TRUE))
    /\ Len(rows) = 2
    /\ Len(last.out) = 1
    /\ last.out[1].asset.ID = rows[1].id
    /\ Len(last.calls) = 8
    /\ rows[2].id \notin DOMAIN blobs

C15_BatchErrorEndsSequence ==
    (/\ last.op = "chunkedCacheIterator"
     /\ HasCall(last.calls, Call("cache.GetBatch", "*", FALSE))) =>
        LET n == Len(last.calls)
            c == NumCalls(last.calls, "cache.GetBatch", "*")
            len == Len(last.out)
        IN /\ last.calls[n] = Call("cache.GetBatch", "*", FALSE)
           /\ \A i \in 1..(n - 1) : last.calls[i] # Call("cache.GetBatch", "*", FALSE)
           /\ len = (c - 1) * batchSize + 1
           /\ last.out[len] = [asset |-> NoAsset, err |-> "failed to fetch cache batch"]
           /\ \A k \in 1..(len - 1) :
                 /\ last.out[k].err = ""
                 /\ last.out[k].asset.ID = ChunkIds[k]

C15_Witness ==
    /\ last.op = "chunkedCacheIterator"
    /\ Len(ChunkIds) = 2 * batchSize + 1
    /\ NumCalls(last.calls, "cache.GetBatch", "*") = 2
    /\ HasCall(last.calls, Call("cache.GetBatch", "*", FALSE))
    /\ Len(last.out) = batchSize + 1
    /\ last.out[batchSize].err = ""
    /\ last.out[batchSize + 1].err = "failed to fetch cache batch"

\* The fetches of a Store cursor that can fail.
ScanFails == 1..(MaxLimit + 1)

\* C16: in a Store-backed FindAll whose Store sequence produces an error
\* element, the service yields the rows before it, each enriched and written
\* through to the cache, then that error, and ends: the rows after the error
\* are neither yielded nor enriched nor cached.
C16_StoreErrorEndsSequence ==
    last = Idle =>
        \A limit \in 0..MaxLimit, offset \in 0..MaxOffset, sf \in ScanFails :
            LET page == Page(rows, limit, offset)
                r == FindAll(World, limit, offset, now,
                             [NoFaults EXCEPT !.scanFail = sf], FullTake)
            IN (Len(IndexIds(limit, offset)) = 0 /\ sf <= Len(page) + 1) =>
                 /\ r.err = ""
                 /\ Len(r.out) = sf
                 /\ r.out[sf] = [asset |-> NoAsset,
                                 err |-> IF sf <= Len(page) THEN "failed to scan row"
                                         ELSE "rows iteration error"]
                 /\ \A k \in 1..(sf - 1) :
                      /\ r.out[k] = [asset |-> Stored(page[k].id), err |-> ""]
                      /\ NumCalls(r.calls, "enricher.Enrich", page[k].id) >= 1
                      /\ NumCalls(r.calls, "cache.AddToSet", page[k].id) >= 1
                      /\ NumCalls(r.calls, "cache.Set", page[k].id) >= 1
                      /\ r.zset[page[k].id] = now
                      /\ unmarshal(r.blobs[page[k].id]).asset = Stored(page[k].id)
                 /\ \A k \in sf..Len(page) :
                      /\ \A i \in 1..Len(r.calls) : r.calls[i].id # page[k].id
                      /\ (page[k].id \in DOMAIN r.blobs) = (page[k].id \in DOMAIN blobs)
                      /\ page[k].id \in DOMAIN blobs => r.blobs[page[k].id] = blobs[page[k].id]
                      /\ (page[k].id \in DOMAIN r.zset) = (page[k].id \in DOMAIN zset)
                      /\ page[k].id \in DOMAIN zset => r.zset[page[k].id] = zset[page[k].id]

C16_Witness ==
    /\ last.op = "FindAll"
    /\ last.limit = 2 /\ last.offset = 0
    /\ Len(rows) = 2
    /\ Len(last.out) = 2
    /\ last.out[1].asset.ID = rows[1].id
    /\ last.out[2].err = "failed to scan row"
    /\ rows[1].id \in DOMAIN blobs
    /\ rows[2].id \notin DOMAIN blobs

\* The state N healthy Saves of distinct ids leave: every row has its index
\* entry and its blob, written by its Save, and a later Save has no lower
\* score than an earlier one.
AllSavedCached ==
    /\ DOMAIN zset = RowIds(rows)
    /\ DOMAIN blobs = RowIds(rows)
    /\ \A i \in 1..Len(rows) :
          /\ blobs[rows[i].id] = rows[i].asset_data
          /\ \A j \in i..Len(rows) : zset[rows[i].id] >= zset[rows[j].id]

\* The caller's loop over the pages offset, offset + limit, ... of FindAll,
\* each read to its end, until a page yields nothing: all that was yielded.
RECURSIVE Paginate(_, _, _)
Paginate(w, limit, offset) ==
    LET r == FindAll(w, limit, offset, now, NoFaults, FullTake)
    IN IF r.out = <<>> THEN <<>>
       ELSE r.out \o Paginate([rows |-> r.rows, zset |-> r.zset, blobs |-> r.blobs,
                                calls |-> <<>>],
                               limit, offset + limit)

\* C17: after N healthy Saves of distinct ids, the pages of FindAll read one
\* after the other yield N assets and no error, every saved asset once.
C17_PagesCoverSaves ==
    (last = Idle /\ AllSavedCached) =>
        \A limit \in 1..MaxLimit :
            LET out == Paginate(World, limit, 0)
            IN /\ Len(out) = Len(rows)
               /\ \A k \in 1..Len(out) : out[k].err = ""
               /\ \A i \in 1..Len(rows) :
                    /\ Cardinality({k \in 1..Len(out) : out[k].asset.ID = rows[i].id}) = 1
                    /\ \E k \in 1..Len(out) : out[k].asset = Stored(rows[i].id)

C17_Witness ==
    /\ last.op = "FindAll"
    /\ last.limit = 1 /\ last.offset = 1
    /\ AllSavedCached
    /\ Len(rows) = 2
    /\ Len(last.out) = 1
    /\ last.out[1].err = ""
    /\ CallNames(last.calls) = <<"cache.GetIdsFromSet", "cache.GetBatch">>

\* The outcomes in which the two cache reads of FindAll succeed.
CacheReadable == {f \in FindAllFaults : f.getIds /\ f.getBatch}

\* C18: when the index returns ids for the page and the cache holds the
\* blob of every one of them, FindAll yields the decoded blob of each id,
\* one per id, calls only cache.GetIdsFromSet and cache.GetBatch (no Store,
\* no Enricher) and changes neither Store nor cache.
C18_AllHitsNoStoreNoEnricher ==
    last = Idle =>
        \A limit \in 0..MaxLimit, offset \in 0..MaxOffset, f \in CacheReadable :
            LET ids == IndexIds(limit, offset)
                r == FindAll(World, limit, offset, now, f, FullTake)
            IN (Len(ids) > 0 /\ \A k \in 1..Len(ids) : ids[k] \in DOMAIN blobs) =>
                 /\ r.calls = <<Call("cache.GetIdsFromSet", "*", TRUE),
                                Call("cache.GetBatch", "*", TRUE)>>
                 /\ r.err = ""
                 /\ Len(r.out) = Len(ids)
                 /\ \A k \in 1..Len(ids) :
                      r.out[k] = [asset |-> unmarshal(blobs[ids[k]]).asset, err |-> ""]
                 /\ r.rows = rows /\ r.zset = zset /\ r.blobs = blobs

C18_Witness ==
    /\ last.op = "FindAll"
    /\ last.limit = 2 /\ last.offset = 0
    /\ last.calls = <<Call("cache.GetIdsFromSet", "*", TRUE),
                      Call("cache.GetBatch", "*", TRUE)>>
    /\ Len(last.out) = 2
    /\ {last.out[1].asset.ID, last.out[2].asset.ID} = IDs
    /\ IDs \subseteq DOMAIN blobs

\* C19: after Delete(id, owner) returned success, the Store holds no row of
\* id and the cache neither an index entry nor a blob of id; the FindByID(id)
\* that follows returns not found and a FindAll that follows does not yield
\* id, on any page.
C19_DeletedIsGone ==
    (last.op = "Delete" /\ last.err = "") =>
        /\ last.id \notin RowIds(rows)
        /\ last.id \notin DOMAIN zset
        /\ last.id \notin DOMAIN blobs
        /\ \A f \in StoreReadable :
              LET r == FindByID(World, last.id, now, f)
              IN /\ r.err = "asset not found"
                 /\ r.asset = NoAsset
                 /\ r.zset = zset /\ r.blobs = blobs
        /\ \A limit \in 0..MaxLimit, offset \in 0..MaxOffset, f \in WriteFaults :
              LET r == FindAll(World, limit, offset, now, f, FullTake)
              IN \A k \in 1..Len(r.out) : r.out[k].asset.ID # last.id

C19_Witness ==
    /\ last.op = "Delete"
    /\ last.err = ""
    /\ HasCall(last.calls, Call("cache.Remove", last.id, TRUE))
    /\ Len(rows) = 1
    /\ DOMAIN blobs = RowIds(rows)
    /\ DOMAIN zset = RowIds(rows)

\* Every concurrent call has returned.
AllDone == \A p \in Procs : inflight[p].pc = "done"

\* C20: with concurrent read-repairs of the same id and no write to the
\* Store, every call returns the Store's asset; the blob of the id, whenever
\* the cache holds one, decodes to the Store's asset; and once all calls
\* have returned, the cache holds the blob if a cache.Set of a repair
\* succeeded and the index entry if a cache.AddToSet of a repair succeeded.
C20_ConcurrentRepairsAgree ==
    /\ \A p \in Procs :
          inflight[p].pc = "done" =>
              /\ inflight[p].err = ""
              /\ inflight[p].ret = Stored(HotId)
    /\ HotId \in DOMAIN blobs => unmarshal(blobs[HotId]).asset = Stored(HotId)
    /\ DOMAIN blobs \subseteq {HotId} /\ DOMAIN zset \subseteq {HotId}
    /\ AllDone =>
          /\ (\E p \in Procs : inflight[p].setOk) => HotId \in DOMAIN blobs
          /\ (\E p \in Procs : inflight[p].addOk) => HotId \in DOMAIN zset

C20_Witness ==
    /\ AllDone
    /\ \A p \in Procs : inflight[p].fromStore /\ inflight[p].setOk /\ inflight[p].addOk
    /\ \E p, q \in Procs : inflight[p].op = "FindByID" /\ inflight[q].op = "FindAll"
    /\ zset[HotId] = MaxTime
    /\ unmarshal(blobs[HotId]).asset = Stored(HotId)

\* The FindByID outcomes in which the cache read fails.
CacheReadFails == {f \in FindByIDFaults : ~f.getBatch}

\* The calls of a service call after its first one.
AfterFirst(calls) == SubSeq(calls, 2, Len(calls))

NotFound == "asset not found"

\* C21: a FindByID(id) whose cache.GetBatch fails does what a FindByID(id)
\* does when the cache holds no blob of id: the cache error is not returned,
\* repo.FindByID is called next, and result, later calls and cache state are
\* those of the miss; when the Store has no row of id it returns not found
\* after these two calls, without an Enricher call and without a cache write.
C21_CacheErrorIsMiss ==
    last = Idle =>
        \A id \in IDs, f \in CacheReadFails :
            LET r == FindByID(World, id, now, f)
                miss == FindByID([World EXCEPT !.blobs = [k \in DOMAIN blobs \ {id} |-> blobs[k]]],
                                 id, now, [f EXCEPT !.getBatch = TRUE])
            IN /\ r.err # "redis error"
               /\ Len(r.calls) >= 2
               /\ r.calls[1] = Call("cache.GetBatch", id, FALSE)
               /\ r.calls[2].fn = "repo.FindByID" /\ r.calls[2].id = id
               /\ miss.calls[1] = Call("cache.GetBatch", id, TRUE)
               /\ AfterFirst(r.calls) = AfterFirst(miss.calls)
               /\ r.err = miss.err /\ r.asset = miss.asset
               /\ r.rows = rows /\ r.zset = miss.zset
               /\ r.blobs = IF HasCall(r.calls, Call("cache.Set", id, TRUE))
                            THEN miss.blobs ELSE blobs
               /\ (id \notin RowIds(rows) /\ f.repoFind) =>
                     /\ r.err = NotFound
                     /\ r.asset = NoAsset
                     /\ r.calls = <<Call("cache.GetBatch", id, FALSE),
                                    Call("repo.FindByID", id, FALSE)>>
                     /\ r.zset = zset /\ r.blobs = blobs

C21_Witness ==
    /\ last.op = "FindByID"
    /\ last.calls = <<Call("cache.GetBatch", last.id, FALSE),
                      Call("repo.FindByID", last.id, FALSE)>>
    /\ last.err = NotFound
    /\ last.id \notin RowIds(rows)
    /\ DOMAIN blobs # {}

\* The outcomes in which the Enricher fails, the cache writes succeeding or not.
EnrichFails == {[NoFaults EXCEPT !.enrich = FALSE, !.add = ad, !.set = st] : ad, st \in BOOLEAN}

\* Service call r returned and left what service call q did.
SameOutcome(r, q) ==
    /\ r.err = q.err /\ r.asset = q.asset /\ r.out = q.out
    /\ r.rows = q.rows /\ r.zset = q.zset /\ r.blobs = q.blobs
    /\ CallNames(r.calls) = CallNames(q.calls)

\* The cache writes for id follow its failed enrichment, one pair per failure.
WritesAttempted(calls, id) ==
    /\ NumCalls(calls, "cache.AddToSet", id) = NumCalls(calls, "enricher.Enrich", id)
    /\ NumCalls(calls, "cache.Set", id) = NumCalls(calls, "enricher.Enrich", id)
    /\ \A i \in 1..Len(calls) :
          calls[i] = Call("enricher.Enrich", id, FALSE) =>
              /\ Len(calls) >= i + 2
              /\ calls[i + 1].fn = "cache.AddToSet" /\ calls[i + 1].id = id
              /\ calls[i + 2].fn = "cache.Set" /\ calls[i + 2].id = id

\* C22: when enricher.Enrich fails in Save, in a FindByID miss, in a FindAll
\* repair or in a Store-backed FindAll, cache.AddToSet and cache.Set are
\* still called for the asset, the asset as it was passed in is cached and
\* returned or yielded, and no error is surfaced: the call returns, yields
\* and leaves what it does when the Enricher succeeds.
C22_EnrichFailureIsNonFatal ==
    last = Idle =>
        \A f \in EnrichFails :
            /\ \A a \in ValidAssets :
                 LET r == Save(World, a, now, f)
                 IN a.ID \notin RowIds(rows) =>
                      /\ r.err = ""
                      /\ SameOutcome(r, Save(World, a, now, [f EXCEPT !.enrich = TRUE]))
                      /\ HasCall(r.calls, Call("enricher.Enrich", a.ID, FALSE))
                      /\ WritesAttempted(r.calls, a.ID)
                      /\ f.add => r.zset[a.ID] = now
                      /\ f.set => r.blobs[a.ID] = Marshal(a)
            /\ \A id \in RowIds(rows) \ DOMAIN blobs :
                 LET r == FindByID(World, id, now, f)
                 IN /\ r.err = ""
                    /\ r.asset = Stored(id)
                    /\ SameOutcome(r, FindByID(World, id, now, [f EXCEPT !.enrich = TRUE]))
                    /\ HasCall(r.calls, Call("enricher.Enrich", id, FALSE))
                    /\ WritesAttempted(r.calls, id)
                    /\ f.add => r.zset[id] = now
                    /\ f.set => r.blobs[id] = Marshal(Stored(id))
            /\ \A limit \in 0..MaxLimit, offset \in 0..MaxOffset :
                 LET r == FindAll(World, limit, offset, now, f, FullTake)
                 IN /\ r.err = ""
                    /\ SameOutcome(r, FindAll(World, limit, offset, now,
                                              [f EXCEPT !.enrich = TRUE], FullTake))
                    /\ \A id \in IDs :
                         HasCall(r.calls, Call("enricher.Enrich", id, FALSE)) =>
                             /\ WritesAttempted(r.calls, id)
                             /\ \E k \in 1..Len(r.out) :
                                    r.out[k] = [asset |-> Stored(id), err |-> ""]
                             /\ f.add => r.zset[id] = now
                             /\ f.set => r.blobs[id] = Marshal(Stored(id))

C22_Witness ==
    /\ last.op = "FindAll"
    /\ HasCall(last.calls, Call("repo.FindAll", "*", TRUE))
    /\ Len(last.out) = 2
    /\ last.out[1].err = "" /\ last.out[2].err = ""
    /\ \A k \in 1..2 :
          /\ HasCall(last.calls, Call("enricher.Enrich", last.out[k].asset.ID, FALSE))
          /\ blobs[last.out[k].asset.ID] = Marshal(last.out[k].asset)

\* The first n elements of sequence s, all of it when it is shorter.
FirstN(s, n) == SubSeq(s, 1, IF n < Len(s) THEN n ELSE Len(s))

\* C23: FindAllByUser(owner, limit, offset) makes one call, repo.FindByUser,
\* and no Cache or Enricher call; what its sequence yields is what the
\* sequence of Repository.FindByUser(owner, limit, offset) yields, element by
\* element up to the consumer's break; a failed query is returned as the
\* error; Store and cache are left as they were.
C23_FindAllByUserDelegates ==
    last = Idle =>
        \A u \in Users, limit \in 0..MaxLimit, offset \in 0..MaxOffset,
           take \in Takes, f \in FindAllByUserFaults :
            LET r == FindAllByUser(World, u, limit, offset, f, take)
                items == RepoFindByUserItems(rows, u, limit, offset, f.scanFail)
            IN /\ r.calls = <<Call("repo.FindByUser", "*", f.repoQuery)>>
               /\ r.rows = rows /\ r.zset = zset /\ r.blobs = blobs
               /\ ~f.repoQuery => (r.err = "failed to query favorites" /\ r.out = <<>>)
               /\ f.repoQuery => (r.err = "" /\ r.out = FirstN(items, take))

C23_Witness ==
    /\ last.op = "FindAllByUser"
    /\ last.calls = <<Call("repo.FindByUser", "*", TRUE)>>
    /\ Len(last.out) = 1
    /\ last.out[1].err = ""
    /\ last.out[1].asset.UserID = last.user
    /\ Len(rows) = 2
    /\ last.out[1].asset.ID \notin DOMAIN blobs
    /\ last.out[1].asset.ID \notin DOMAIN zset

\* What GET /favorites?page=&limit= returns to user u in state w.
ListOf(w, u, page, limit) == List(w, u, page, limit, NoFaults).out

\* The state a service call that returned r has left.
WorldOf(r) == [rows |-> r.rows, zset |-> r.zset, blobs |-> r.blobs, calls |-> <<>>]

\* The assets of the rows of user u, most recent first.
OwnAssets(u) ==
    LET own == SelectSeq(rows, LAMBDA r : r.user_id = u)
    IN [k \in 1..Len(own) |->
           [asset |-> unmarshalAsset(own[k].type, own[k].asset_data).asset, err |-> ""]]

\* The state without the rows of the users other than u, and without cache.
WithoutOthers(u) ==
    [rows |-> SelectSeq(rows, LAMBDA r : r.user_id = u),
     zset |-> [k \in {} |-> 0], blobs |-> [k \in {} |-> 0], calls |-> <<>>]

\* The states a request of user v can leave: a create, a delete, a get or a list.
AfterRequestOf(v) ==
    {WorldOf(Save(World, parseAsset(TenantBody(id), AssetTypeChart, v, "uuid-1").asset, now, NoFaults)) : id \in TenantIds}
    \cup {WorldOf(Delete(World, id, v, [NoFaults EXCEPT !.remove = rm])) :
              id \in TenantIds, rm \in BOOLEAN}
    \cup {WorldOf(FindByID(World, id, now, NoFaults)) : id \in TenantIds}
    \cup {WorldOf(List(World, v, page, limit, NoFaults)) : page \in Pages, limit \in Limits}

VariantRule(a) ==
    IF a.variant = AssetTypeChart THEN a.XAxis # "" \/ a.YAxis # ""
    ELSE IF a.variant = AssetTypeInsight THEN a.Content # ""
    ELSE /\ a.Rules.Country # ""
         /\ a.Rules.AgeMin >= 0
         /\ a.Rules.AgeMax >= 0
         /\ a.Rules.AgeMax > 0 => a.Rules.AgeMin <= a.Rules.AgeMax

\* The errors of the rules of the concrete types.
VariantErrors ==
    {"validation failed: chart requires at least one axis to be defined",
     "validation failed: content is required for Insight",
     "validation failed: country rule is required for Audience",
     "validation failed: age limits cannot be negative",
     "validation failed: age_min cannot be greater than age_max"}

\* C25: Validate succeeds exactly when the id is not empty, the name is not
\* empty, the type field is the concrete type and the rule of the concrete
\* type holds; otherwise its error is that of the first failing check in the
\* order id, name, type, rule of the concrete type.
C25_ValidateFirstFailingCheck ==
    last.op = "Validate" =>
        LET a == last.arg IN
        /\ (last.err = "") <=>
               (a.ID # "" /\ a.Name # "" /\ a.Type = a.variant /\ VariantRule(a))
        /\ a.ID = "" => last.err = "validation failed: id is required"
        /\ (a.ID # "" /\ a.Name = "") => last.err = "validation failed: name is required"
        /\ (a.ID # "" /\ a.Name # "" /\ a.Type # a.variant)
               => last.err = "validation failed: invalid asset type"
        /\ (a.ID # "" /\ a.Name # "" /\ a.Type = a.variant /\ ~VariantRule(a))
               => last.err \in VariantErrors
        /\ last.err = "validation failed: country rule is required for Audience"
               => a.Rules.Country = ""
        /\ last.err = "validation failed: age limits cannot be negative"
               => (a.Rules.Country # "" /\ (a.Rules.AgeMin < 0 \/ a.Rules.AgeMax < 0))
        /\ last.err = "validation failed: age_min cannot be greater than age_max"
               => (a.Rules.AgeMax > 0 /\ a.Rules.AgeMin > a.Rules.AgeMax)

C25_Witness ==
    /\ last.op = "Validate"
    /\ last.arg.variant = AssetTypeAudience
    /\ last.arg.ID = ""
    /\ last.arg.Rules.Country = ""
    /\ last.arg.Rules.AgeMin > last.arg.Rules.AgeMax
    /\ last.err = "validation failed: id is required"

\* The cache holds a blob of id whose discriminator is none of the three kinds.
Undecodable(id) == id \in DOMAIN blobs /\ Get(blobs[id], "type", "") \notin AssetTypes

\* The FindByID outcomes in which the cache read succeeds.
CacheReadOk == {f \in FindByIDFaults : f.getBatch}

\* C26: a cached blob whose discriminator is not chart, insight or audience
\* decodes to an error and no asset; FindByID of its id returns that error
\* after the cache read alone, without reading the Store; a cache-backed
\* FindAll yields the assets of the ids before it, then one error element
\* at its position, and ends there: the id is not repaired from the Store
\* and the ids after it are not yielded.
C26_UnknownKindIsFatal ==
    last = Idle =>
        \A id \in IDs :
            Undecodable(id) =>
                /\ unmarshal(blobs[id]) = [err |-> "unknown type", asset |-> NoAsset]
                /\ \A f \in CacheReadOk :
                     LET r == FindByID(World, id, now, f)
                     IN /\ r.err = "unknown type"
                        /\ r.asset = NoAsset
                        /\ r.calls = <<Call("cache.GetBatch", id, TRUE)>>
                        /\ r.rows = rows /\ r.zset = zset /\ r.blobs = blobs
                /\ \A limit \in 0..MaxLimit, offset \in 0..MaxOffset, f \in WriteFaults :
                     LET ids == IndexIds(limit, offset)
                         r == FindAll(World, limit, offset, now, f, FullTake)
                     IN \A k \in 1..Len(ids) :
                          (/\ ids[k] = id
                           /\ \A j \in 1..(k - 1) : Readable(ids[j]) /\ ~Undecodable(ids[j])) =>
                              /\ r.err = ""
                              /\ Len(r.out) = k
                              /\ r.out[k] = [asset |-> NoAsset,
                                             err |-> "failed to unmarshal cached asset"]
                              /\ \A j \in 1..(k - 1) :
                                    r.out[j].err = "" /\ r.out[j].asset.ID = ids[j]
                              /\ \A i \in 1..Len(r.calls) : r.calls[i].id # id
                              /\ r.blobs[id] = blobs[id]
                              /\ \A j \in (k + 1)..Len(ids) :
                                    \A i \in 1..Len(r.calls) : r.calls[i].id # ids[j]

C26_Witness ==
    /\ last.op = "FindAll"
    /\ last.limit = 2 /\ last.offset = 0
    /\ Len(last.out) = 1
    /\ last.out[1] = [asset |-> NoAsset, err |-> "failed to unmarshal cached asset"]
    /\ CallNames(last.calls) = <<"cache.GetIdsFromSet", "cache.GetBatch">>
    /\ \E id \in IDs : Undecodable(id) /\ zset[id] = 1
    /\ \E id \in IDs : ~Undecodable(id) /\ zset[id] = 0 /\ id \in DOMAIN blobs

\* Index entry and blob of every id other than id are in (z, b) what they
\* are in the cache now.
OtherEntriesKept(z, b, id) ==
    \A o \in TenantIds \ {id} :
        /\ (o \in DOMAIN z) = (o \in DOMAIN zset)
        /\ o \in DOMAIN zset => z[o] = zset[o]
        /\ (o \in DOMAIN b) = (o \in DOMAIN blobs)
        /\ o \in DOMAIN blobs => b[o] = blobs[o]

\* C27: a successful Remove(id) leaves the cache with neither an index
\* entry nor a blob of id; a successful Invalidate(id) leaves it without the
\* blob of id and with the index membership and score of id as they were;
\* neither changes the index entry or the blob of another id.
C27_RemoveAndInvalidateFrames ==
    \A id \in TenantIds :
        LET rm == Remove(zset, blobs, id, TRUE)
            inv == Invalidate(zset, blobs, id, TRUE)
        IN /\ id \notin DOMAIN rm.zset
           /\ id \notin DOMAIN rm.blobs
           /\ OtherEntriesKept(rm.zset, rm.blobs, id)
           /\ id \notin DOMAIN inv.blobs
           /\ (id \in DOMAIN inv.zset) = (id \in DOMAIN zset)
           /\ id \in DOMAIN zset => inv.zset[id] = zset[id]
           /\ OtherEntriesKept(inv.zset, inv.blobs, id)
           /\ (last.op = "cache.Remove" /\ last.id = id /\ last.err = "")
                 => (id \notin DOMAIN zset /\ id \notin DOMAIN blobs)
           /\ (last.op = "cache.Invalidate" /\ last.id = id /\ last.err = "")
                 => id \notin DOMAIN blobs

C27_Witness ==
    /\ last.op = "cache.Invalidate"
    /\ last.err = ""
    /\ last.id \in DOMAIN zset
    /\ zset[last.id] = MaxTime
    /\ last.id \notin DOMAIN blobs
    /\ TenantIds \ {last.id} \subseteq DOMAIN blobs \cap DOMAIN zset

\* The ids of the elements of a sequence of (asset, err) pairs.
OutIds(out) == [k \in 1..Len(out) |-> out[k].asset.ID]

\* The ids of the rows of Repository.FindAll(limit, offset).
StoreIds(limit, offset) ==
    LET page == Page(rows, limit, offset) IN [k \in 1..Len(page) |-> page[k].id]

IndexAligned ==
    /\ DOMAIN zset = RowIds(rows)
    /\ \A i \in 1..Len(rows) : \A j \in (i + 1)..Len(rows) :
          \/ zset[rows[i].id] > zset[rows[j].id]
          \/ zset[rows[i].id] = zset[rows[j].id] /\ IdRank(rows[i].id) > IdRank(rows[j].id)

RemovedFromCache == HasCall(last.calls, Call("cache.Remove", last.id, TRUE))

C30_NoResurrectionAfterDelete ==
    (/\ AllDone
     /\ inflight[Deleter].op = "Delete"
     /\ inflight[Deleter].err = "") =>
        /\ HotId \notin DOMAIN zset
        /\ HotId \notin DOMAIN blobs

\* C31: once an UpdateDescription(id, d) that returned success after
\* removing the cache entries of id and a concurrent FindByID(id) have both
\* returned, the blob of id, if the cache holds one, carries description d,
\* whatever the interleaving of their calls.
C31_NoStaleBlobAfterUpdate ==
    (/\ AllDone
     /\ inflight[Deleter].op = "UpdateDescription"
     /\ inflight[Deleter].err = ""
     /\ inflight[Deleter].setOk
     /\ HotId \in DOMAIN blobs) =>
        unmarshal(blobs[HotId]).asset.Description = NewDescription

\* C32: an index entry whose id the Store does not hold and that has no blob
\* does not stay: if FindAll calls keep reaching the repair of that id, the
\* entry is eventually removed (or the id is stored again), so the reads of
\* its page stop failing.
Orphan(id) ==
    /\ id \in DOMAIN zset
    /\ id \notin RowIds(rows)
    /\ id \notin DOMAIN blobs

RepairTried(id) ==
    /\ last.op = "FindAll"
    /\ \E i \in 1..Len(last.calls) :
          last.calls[i].fn = "repo.FindByID" /\ last.calls[i].id = id

C32_OrphanEventuallyRemoved ==
    \A id \in IDs : ([]<>RepairTried(id)) => (Orphan(id) ~> ~Orphan(id))

\* C33: when no collaborator fails, no blob expires and the calls run one
\* at a time, a blob in the cache belongs to an id the Store holds and
\* decodes to an asset of the same kind, owner, description and variant
\* fields as the Store's copy, and an index entry belongs to an id the Store
\* holds.
SameAsStored(c, s) ==
    /\ c.variant = s.variant
    /\ c.Type = s.Type
    /\ c.UserID = s.UserID
    /\ c.Description = s.Description
    /\ c.XAxis = s.XAxis
    /\ c.YAxis = s.YAxis
    /\ c.Content = s.Content
    /\ c.Rules = s.Rules

C33_CacheAgreesWithStore ==
    /\ \A id \in DOMAIN blobs :
          /\ id \in RowIds(rows)
          /\ unmarshal(blobs[id]).err = ""
          /\ SameAsStored(unmarshal(blobs[id]).asset, RepoFindByID(rows, id, TRUE).asset)
    /\ \A id \in DOMAIN zset : id \in RowIds(rows)

\* A blob written by a repair after the description was updated.
C33_Witness ==
    /\ last.op = "FindByID"
    /\ last.id \in DOMAIN blobs
    /\ HasCall(last.calls, Call("cache.Set", last.id, TRUE))
    /\ unmarshal(blobs[last.id]).asset.Description \in Descriptions

\* C34: in a Store-backed FindAll, every asset yielded was passed to
\* enricher.Enrich exactly once and written through to the cache exactly
\* once (one cache.AddToSet and one cache.Set) before it was yielded.
StoreBacked == last.op = "FindAll" /\ HasCall(last.calls, Call("repo.FindAll", "*", TRUE))

C34_OneEnrichOneWriteThrough ==
    StoreBacked =>
        \A k \in 1..Len(last.out) :
            last.out[k].err = "" =>
                /\ NumCalls(last.calls, "enricher.Enrich", last.out[k].asset.ID) = 1
                /\ NumCalls(last.calls, "cache.AddToSet", last.out[k].asset.ID) = 1
                /\ NumCalls(last.calls, "cache.Set", last.out[k].asset.ID) = 1

\* C35: every GetBatch call of the cache-backed iterator requests between 1
\* and 100 ids, the chunks requested so far, concatenated in call order, are
\* a prefix of the index ids (the whole list when the sequence was consumed
\* to its end), a chunk is requested only after every id of the chunks
\* before it was yielded, and at most ceil(n/100) calls are made.
RECURSIVE Concat(_)
Concat(ss) == IF ss = <<>> THEN <<>> ELSE Head(ss) \o Concat(Tail(ss))

C35_ChunksPartitionIndex ==
    LET c == inflight
        n == Len(c.ids)
        all == Concat(c.batches)
    IN /\ \A j \in 1..Len(c.batches) :
             /\ Len(c.batches[j]) \in 1..100
             /\ c.yielded >= Len(Concat(SubSeq(c.batches, 1, j - 1)))
       /\ all = SubSeq(c.ids, 1, Len(all))
       /\ (c.pc = "done" /\ c.yielded = n) => all = c.ids
       /\ Len(c.batches) <= (n + 99) \div 100

\* An index of three chunks consumed to its end.
C35_Witness ==
    /\ inflight.pc = "done"
    /\ Len(inflight.batches) = 3
    /\ inflight.yielded = Len(inflight.ids)
    /\ Len(inflight.batches[3]) = 1

\* C36: a FindAll or FindAllByUser call whose returned sequence the consumer
\* never ranges over leaves no Store cursor open.
C36_NoCursorWithoutConsumer ==
    last = Idle =>
        \A limit \in 0..MaxLimit, offset \in 0..MaxOffset :
            /\ FindAll(World, limit, offset, now, NoFaults, 0).cursor # "open"
            /\ \A u \in Users :
                 FindAllByUser(World, u, limit, offset, NoFaults, 0).cursor # "open"

\* C37: a FindAll whose cache.GetIdsFromSet fails behaves as with an empty
\* index: it reads the Store, returns no error, and its sequence yields the
\* Store's page; when repo.FindAll fails as well (or with an empty index),
\* FindAll returns that error, no element, and touches nothing.
EmptyIndexWorld == [World EXCEPT !.zset = [k \in {} |-> 0]]

C37_IndexErrorFallsBack ==
    last = Idle =>
        \A limit \in 0..MaxLimit, offset \in 0..MaxOffset, take \in Takes :
            LET g == [NoFaults EXCEPT !.getIds = FALSE]
                r == FindAll(World, limit, offset, now, g, take)
                e == FindAll(EmptyIndexWorld, limit, offset, now, NoFaults, take)
                q == FindAll(World, limit, offset, now, [g EXCEPT !.repoQuery = FALSE], take)
                p == FindAll(EmptyIndexWorld, limit, offset, now,
                             [NoFaults EXCEPT !.repoQuery = FALSE], take)
            IN /\ r.err = ""
               /\ r.calls[1] = Call("cache.GetIdsFromSet", "*", FALSE)
               /\ r.calls[2] = Call("repo.FindAll", "*", TRUE)
               /\ Tail(r.calls) = Tail(e.calls)
               /\ r.out = e.out
               /\ r.out = FirstN(RepoFindAllItems(rows, limit, offset, 0), take)
               /\ \A x \in {q, p} :
                    /\ x.err = "failed to query assets"
                    /\ x.out = <<>>
                    /\ x.cursor = "none"
                    /\ x.blobs = blobs
                    /\ x.rows = rows
               /\ q.zset = zset

\* The index holds ids, its read fails, and both Store rows are yielded.
C37_Witness ==
    /\ last.op = "FindAll"
    /\ last.err = ""
    /\ last.calls[1] = Call("cache.GetIdsFromSet", "*", FALSE)
    /\ Len(last.out) = 2
    /\ last.out[2].err = ""
    /\ OutIds(last.out) = StoreIds(last.limit, last.offset)

\* C38: the asset the create handler passes to Save has the user of the
\* request context as owner, whatever user_id the body carries, and an id
\* that is not empty: the id of the body, or a new uuid when the body has
\* none; without a user in the context Save is not called.
C38_CreateOwnerIsTokenUser ==
    last.op = "Create" =>
        /\ last.arg # NoAsset =>
              /\ last.user # ""
              /\ last.arg.UserID = last.user
              /\ last.arg.ID # ""
              /\ last.arg.ID = (IF last.id # "" THEN last.id ELSE last.arg.ID)
              /\ last.id = "" => last.arg.ID \in UUIDs
        /\ last.user = "" =>
              /\ last.arg = NoAsset
              /\ last.calls = <<>>
              /\ last.err = "unauthorized"
        /\ \A i \in 1..Len(rows) :
              rows[i].id = last.arg.ID /\ last.err = "" => rows[i].user_id = last.user

\* A body with another user's user_id and no id was stored for the user of
\* the token under a new uuid.
C38_Witness ==
    /\ last.op = "Create"
    /\ last.err = ""
    /\ last.desc \in Users
    /\ last.desc # last.user
    /\ last.id = ""
    /\ last.arg.ID \in UUIDs
    /\ last.arg.ID \in RowIds(rows)

\* C39: for every page and limit of the query string, NewPagination returns
\* a limit in 1..1000 and an offset that is not negative and equals
\* (page - 1) * limit, page and limit being the values after their defaults
\* and cap.
C39_OffsetNeverWraps ==
    last.op = "NewPagination" =>
        LET p == Atoi(inflight.page)
            pg == IF p < 1 THEN 1 ELSE p
        IN /\ last.limit \in 1..1000
           /\ last.offset >= 0
           /\ last.offset = (pg - 1) * last.limit

====
